---- MODULE Spec2Model ----
(***************************************************************************)
(* Model of the crystalball pipeline:                                      *)
(*   - crystalball/collect.py: process_dataset, the windowing of one       *)
(*     region's ordered observations into feature rows and target rows,    *)
(*     and get_data, which saves the rows of every region as a dataset;    *)
(*   - crystalball/train.py: run_training, up to the loading of a dataset; *)
(*   - fit-parallel.py: the commands run as subprocesses in chunks.        *)
(*                                                                         *)
(* Time is counted in ticks of half an hour since 2016-11-29 22:00, so     *)
(* that timestamps off the hourly grid, duplicated timestamps and missing  *)
(* hours are all inputs of the model.  Floating point values are           *)
(* represented by integers (every value stored is converted exactly).      *)
(***************************************************************************)
EXTENDS Integers, Sequences, FiniteSets, TLC

\* Bounds of the model.
MaxHours == 2   \* HISTORICAL_HOURS and FUTURE_HOURS range over 1..MaxHours
MaxLen == 7     \* longest observation sequence
MaxGaps == 2    \* at most this many adjacent pairs are not one hour apart

\* Ticks in one hour: the resolution of a DateTime column kept by the model.
TicksPerHour == 2

VARIABLES
    HISTORICAL_HOURS,   \* module configuration (collect.py:14)
    FUTURE_HOURS,       \* module configuration (collect.py:15)
    data,               \* the argument of process_dataset
    pc,                 \* position in process_dataset
    exception,          \* the exception that ended the call, or "none"
    maxdataindex,
    i,                  \* the loop variable of line 66 (next index to examine)
    inout_index,
    inwork_index,
    outwork_index,
    skip_count,
    in_working,
    out_working,
    input_data,
    output_data,
    w_index,            \* position of `w` in working_set (line 96), 1-based
    examined,           \* the values `i` has taken so far, in order
    emitted,            \* the values of `i` whose row pair line 118 stored, in order
    retval,             \* what process_dataset returned (line 129), <<>> before
    stdout,             \* the lines printed so far, by any call
    two,                \* a second call of process_dataset, when there is one
    database,           \* combined_data: per region id, its rows ordered by dtime
    collect,            \* the locals of get_data and its position
    files,              \* the files of SET_DIRECTORY
    training,           \* the locals of run_training and its position
    parallel,           \* the locals of run_asyncio_commands and its position
    commands,           \* per task of fit-parallel.py, its coroutine and subprocess
    batch,              \* MODELS_DIRECTORY and the lists of models made from it
    network             \* the model run_training creates and fits, and its arrays

vars == <<HISTORICAL_HOURS, FUTURE_HOURS, data, pc, exception, maxdataindex, i,
          inout_index, inwork_index, outwork_index, skip_count, in_working,
          out_working, input_data, output_data, w_index, examined, emitted,
          retval, stdout, two, database, collect, files, training,
          parallel, commands, batch, network>>

\* The state that is not local to a call of process_dataset, its printing
\* apart.
outside == <<two, database, collect, files, training, parallel, commands,
             batch, network>>

\* The locals of a call of process_dataset.
locals == <<data, pc, exception, maxdataindex, i, inout_index, inwork_index,
            outwork_index, skip_count, in_working, out_working, input_data,
            output_data, w_index, examined, emitted, retval>>

\* Python's None.
None == [none |-> TRUE]

\* get_data before it is called.
NoCollection ==
    [pc |-> "idle", region_id |-> 0, train_set_in |-> None, train_set_out |-> None,
     test_set_in |-> None, test_set_out |-> None, tmp_training_set |-> <<>>,
     fname |-> <<>>, exception |-> "none"]

\* run_training before it is called.
NoTraining ==
    [pc |-> "idle", dataset |-> None, shapes |-> None, loadsets |-> None,
     datasets |-> None, exception |-> "none"]

\* run_asyncio_commands before it is called.
NoRun ==
    [pc |-> "idle", tasks |-> <<>>, max_concurrent_tasks |-> 0, chunks |-> <<>>,
     num_chunks |-> 0, chunk |-> 0, all_results |-> <<>>, loop |-> "open"]

\* No model created and none fitted.
NoNetwork ==
    [pc |-> "idle", num_layers |-> 0, layer_space |-> "linear", steps_per_epoch |-> 0,
     epochs |-> 0, train_set_in |-> [shape |-> <<0, 0>>, rows |-> <<>>],
     train_set_out |-> [shape |-> <<0, 0>>, rows |-> <<>>], layers |-> <<>>,
     fit_in |-> [shape |-> <<0, 0>>, rows |-> <<>>],
     fit_out |-> [shape |-> <<0, 0>>, rows |-> <<>>], saves |-> 0]

\* MODELS_DIRECTORY with nothing in it and no list made of it.
NoBatch ==
    [entries |-> {}, saved |-> {}, manifest |-> 0, listed |-> FALSE, cmd_list |-> <<>>,
     loaded |-> FALSE, modelnames |-> <<>>]

\* SET_DIRECTORY with nothing in it: the archives (.npz) and the shape
\* records (.shape) by name.
NoFiles == [npz |-> {}, shape |-> {}]

-----------------------------------------------------------------------------
\* Module constants derived from the configuration.

\* timedelta(hours=h)
timedelta(h) == h * TicksPerHour

\* START_END_TDIFF counted one hour too long.
START_END_TDIFF_OneHourLong == timedelta(HISTORICAL_HOURS + FUTURE_HOURS)

START_END_TDIFF == timedelta(HISTORICAL_HOURS + FUTURE_HOURS - 1)

START_NOW_TDIFF == timedelta(HISTORICAL_HOURS - 1)

\* INPUT_LENGTH with three slots for a future observation as well.
INPUT_LENGTH_ThreePerFuture == HISTORICAL_HOURS * 3 + FUTURE_HOURS * 3 + 5

INPUT_LENGTH == HISTORICAL_HOURS * 3 + FUTURE_HOURS * 2 + 5

OUTPUT_LENGTH == FUTURE_HOURS

-----------------------------------------------------------------------------
\* The rows of combined_data: what load.py and preprocess.py store.

\* date.hour, date.weekday() and date.year of tick t (2016-11-29 was a Tuesday).
HourOf(t) == (22 + t \div TicksPerHour) % 24

DayOf(t) == (22 + t \div TicksPerHour) \div 24

DayOfWeekOf(t) == (1 + DayOf(t)) % 7

YearOf(t) == IF DayOf(t) < 33 THEN 2016 ELSE 2017

\* The weather joined to a power row is the weather of its dtime.
WeatherDescriptionAt(t) == 1 + (t % 4)

TemperatureAt(t) == 15 + (t % 3)

\* The k-th row of a region (k from 1) at tick t; one row of the sequence,
\* `bump`, carries a power reading off the ramp 10, 20, 30, ...
CombinedData(k, t, bump) ==
    [dtime |-> t,
     year |-> YearOf(t),
     dayofweek |-> DayOfWeekOf(t),
     hour |-> HourOf(t),
     latitude |-> 40,
     longitude |-> 0 - 75,
     weather_description_id |-> WeatherDescriptionAt(t),
     temperature |-> TemperatureAt(t),
     power_mw |-> 10 * k + (IF k = bump THEN 5 ELSE 0)]

RECURSIVE SumTo(_, _)
SumTo(g, k) == IF k = 0 THEN 0 ELSE g[k] + SumTo(g, k - 1)

\* Distances in ticks between adjacent rows of an ordered query result:
\* one hour, except at no more than MaxGaps places, where the distance is
\* 0 (a repeated timestamp), half an hour, an hour and a half or two hours.
Distances(n) ==
    {g \in [1..(n - 1) -> 0..(2 * TicksPerHour)] :
        Cardinality({k \in 1..(n - 1) : g[k] # TicksPerHour}) <= MaxGaps}

\* The rows of a result of n rows that may carry the power reading off the
\* ramp (0: none): the third, which the first windows have in their history
\* or their future, and the last that any window reaches.
PowerBumps(n) == {0} \cup ({3, n - 2} \cap 1..n)

\* q.order_by(CombinedData.dtime).all()
OrderedQuery(n, g, bump) ==
    [k \in 1..n |-> CombinedData(k, SumTo(g, k - 1), bump)]

-----------------------------------------------------------------------------
\* numpy

\* np.zeros(n)
Zeros(n) == [k \in 1..n |-> 0]

\* np.zeros((n, m)); a matrix keeps its shape also when it has no rows
Zeros2(n, m) == [shape |-> <<n, m>>, rows |-> [k \in 1..n |-> Zeros(m)]]

\* The unused rows left in place.
DeleteFrom_KeepsRows(a, from) == a

\* np.delete(a, [x for x in range(from, len(a))], axis=0)
DeleteFrom(a, from) ==
    [shape |-> <<from, a.shape[2]>>, rows |-> SubSeq(a.rows, 1, from)]

\* A row written to index r and to the first row as well.
SetRow_AlsoFirst(a, r, v) == [a EXCEPT !.rows[r + 1] = v, !.rows[1] = v]

\* a[r] = v, with r counted from 0
SetRow(a, r, v) == [a EXCEPT !.rows[r + 1] = v]

\* v[x] = e, with x counted from 0
SetAt(v, x, e) == [v EXCEPT ![x + 1] = e]

-----------------------------------------------------------------------------
\* process_dataset

nowindex == HISTORICAL_HOURS - 1

\* data[i:working_end] for the current i
working_set == SubSeq(data, i + 1, i + HISTORICAL_HOURS + FUTURE_HOURS)

now == working_set[nowindex + 1]

\* The first check left out.
StartEndOk_Unchecked == TRUE

StartEndOk == working_set[1].dtime + START_END_TDIFF = working_set[Len(working_set)].dtime

StartNowOk == working_set[1].dtime + START_NOW_TDIFF = now.dtime

Init ==
    /\ HISTORICAL_HOURS \in 1..MaxHours
    /\ FUTURE_HOURS \in 1..MaxHours
    /\ \E n \in 0..MaxLen : \E g \in Distances(n) : \E bump \in PowerBumps(n) :
           data = OrderedQuery(n, g, bump)
    /\ pc = "start"
    /\ exception = "none"
    /\ maxdataindex = 0
    /\ i = 0
    /\ inout_index = 0
    /\ inwork_index = 0
    /\ outwork_index = 0
    /\ skip_count = 0
    /\ in_working = <<>>
    /\ out_working = <<>>
    /\ input_data = Zeros2(0, 0)
    /\ output_data = Zeros2(0, 0)
    /\ w_index = 0
    /\ examined = <<>>
    /\ emitted = <<>>
    /\ retval = <<>>
    /\ stdout = <<>>
    /\ two = <<>>
    /\ database = <<>>
    /\ collect = NoCollection
    /\ files = NoFiles
    /\ training = NoTraining
    /\ batch = NoBatch
    /\ network = NoNetwork
    /\ parallel = NoRun
    /\ commands = <<>>

\* Lines 47-60 when np.zeros accepts the shape.
Begin ==
    /\ pc = "start"
    /\ Len(data) - 1 - FUTURE_HOURS - HISTORICAL_HOURS >= 0
    /\ maxdataindex' = Len(data) - 1 - FUTURE_HOURS - HISTORICAL_HOURS
    /\ input_data' = Zeros2(maxdataindex', INPUT_LENGTH)
    /\ output_data' = Zeros2(maxdataindex', OUTPUT_LENGTH)
    /\ in_working' = Zeros(INPUT_LENGTH)
    /\ out_working' = Zeros(OUTPUT_LENGTH)
    /\ inout_index' = 0
    /\ inwork_index' = 0
    /\ outwork_index' = 0
    /\ skip_count' = 0
    /\ i' = 0
    /\ pc' = "loop"
    /\ stdout' = Append(stdout, <<"Data has", Len(data), "elements">>)
    /\ UNCHANGED <<HISTORICAL_HOURS, FUTURE_HOURS, data, exception, w_index, examined,
                   emitted, retval>>
    /\ UNCHANGED outside

\* Lines 47-50 when maxdataindex is negative: np.zeros raises ValueError
\* ("negative dimensions are not allowed") and the call ends.
BeginRaises ==
    /\ pc = "start"
    /\ Len(data) - 1 - FUTURE_HOURS - HISTORICAL_HOURS < 0
    /\ maxdataindex' = Len(data) - 1 - FUTURE_HOURS - HISTORICAL_HOURS
    /\ pc' = "raised"
    /\ exception' = "ValueError"
    /\ UNCHANGED <<HISTORICAL_HOURS, FUTURE_HOURS, data, i, inout_index, inwork_index,
                   outwork_index, skip_count, in_working, out_working, input_data,
                   output_data, w_index, examined, emitted, retval, stdout>>
    /\ UNCHANGED outside

\* Lines 70-71: the progress line of every 10000th iteration.
Progress(out, n) == IF n % 10000 = 0 THEN Append(out, <<"At iteration", n>>) ELSE out

\* Lines 66-81: the window does not span START_END_TDIFF.
SkipStartEnd ==
    /\ pc = "loop"
    /\ i < maxdataindex
    /\ ~StartEndOk
    /\ inwork_index' = 0
    /\ outwork_index' = 0
    /\ skip_count' = skip_count + 1
    /\ examined' = Append(examined, i)
    /\ i' = i + 1
    /\ stdout' = Progress(stdout, i)
    /\ UNCHANGED <<HISTORICAL_HOURS, FUTURE_HOURS, data, pc, exception, maxdataindex,
                   inout_index, in_working, out_working, input_data, output_data,
                   w_index, emitted, retval>>
    /\ UNCHANGED outside

\* Lines 66-85: the window spans START_END_TDIFF but now is not
\* START_NOW_TDIFF after its first observation.
SkipStartNow ==
    /\ pc = "loop"
    /\ i < maxdataindex
    /\ StartEndOk
    /\ ~StartNowOk
    /\ inwork_index' = 0
    /\ outwork_index' = 0
    /\ skip_count' = skip_count + 1
    /\ examined' = Append(examined, i)
    /\ i' = i + 1
    /\ stdout' = Progress(stdout, i)
    /\ UNCHANGED <<HISTORICAL_HOURS, FUTURE_HOURS, data, pc, exception, maxdataindex,
                   inout_index, in_working, out_working, input_data, output_data,
                   w_index, emitted, retval>>
    /\ UNCHANGED outside

\* Lines 88-92: the fields of the anchor go to the first five slots.
LoadStatic(buf, obs) ==
    SetAt(SetAt(SetAt(SetAt(SetAt(buf,
        0, obs.year), 1, obs.dayofweek), 2, obs.hour),
        3, obs.latitude), 4, obs.longitude)

\* The temperature written before the weather description.
WriteWeather_Swapped(buf, x, obs) ==
    SetAt(SetAt(buf, x, obs.temperature), x + 1, obs.weather_description_id)

\* Lines 98-101: the weather of one observation goes to slots x and x + 1.
WriteWeather(buf, x, obs) ==
    SetAt(SetAt(buf, x, obs.weather_description_id), x + 1, obs.temperature)

\* Lines 66-93: both checks pass; the fields of now are loaded.
LoadNow ==
    /\ pc = "loop"
    /\ i < maxdataindex
    /\ StartEndOk
    /\ StartNowOk
    /\ outwork_index' = 0
    /\ in_working' = LoadStatic(in_working, now)
    /\ inwork_index' = 5
    /\ examined' = Append(examined, i)
    /\ w_index' = 1
    /\ pc' = "inner"
    /\ stdout' = Progress(stdout, i)
    /\ UNCHANGED <<HISTORICAL_HOURS, FUTURE_HOURS, data, exception, maxdataindex, i,
                   inout_index, skip_count, out_working, input_data, output_data, emitted,
                   retval>>
    /\ UNCHANGED outside

\* The window walked from its last observation to its first.
w_Reversed == working_set[Len(working_set) + 1 - w_index]

\* The observation `w` of the for loop of line 96.
w == working_set[w_index]

\* Whether the body of the loop of line 96 writes inside both buffers.
WritesFit ==
    IF w.dtime <= now.dtime
    THEN inwork_index + 2 < INPUT_LENGTH
    ELSE inwork_index + 1 < INPUT_LENGTH /\ outwork_index < OUTPUT_LENGTH

\* Lines 96-112 for one observation of the window.
Collect ==
    /\ pc = "inner"
    /\ WritesFit
    /\ IF w.dtime <= now.dtime
       THEN /\ in_working' = SetAt(WriteWeather(in_working, inwork_index, w),
                                 inwork_index + 2, w.power_mw)
            /\ inwork_index' = inwork_index + 3
            /\ UNCHANGED <<out_working, outwork_index>>
       ELSE /\ in_working' = WriteWeather(in_working, inwork_index, w)
            /\ inwork_index' = inwork_index + 2
            /\ out_working' = SetAt(out_working, outwork_index, w.power_mw)
            /\ outwork_index' = outwork_index + 1
    /\ IF w_index = Len(working_set)
       THEN pc' = "store" /\ w_index' = w_index
       ELSE pc' = "inner" /\ w_index' = w_index + 1
    /\ UNCHANGED <<HISTORICAL_HOURS, FUTURE_HOURS, data, exception, maxdataindex, i,
                   inout_index, skip_count, input_data, output_data, examined, emitted,
                   retval, stdout>>
    /\ UNCHANGED outside

\* Lines 96-112 when a write falls outside its buffer: IndexError ends the
\* call (the locals are dead from here on and are left as they were).
CollectRaises ==
    /\ pc = "inner"
    /\ ~WritesFit
    /\ pc' = "raised"
    /\ exception' = "IndexError"
    /\ UNCHANGED <<HISTORICAL_HOURS, FUTURE_HOURS, data, maxdataindex, i, inout_index,
                   inwork_index, outwork_index, skip_count, in_working, out_working,
                   input_data, output_data, w_index, examined, emitted, retval, stdout>>
    /\ UNCHANGED outside

\* Lines 114-120: the two assertions, then the row pair is stored; an
\* inout_index past the last row of input_data raises IndexError.
Store ==
    /\ pc = "store"
    /\ IF /\ inwork_index = INPUT_LENGTH
          /\ outwork_index = OUTPUT_LENGTH
          /\ inout_index < input_data.shape[1]
       THEN /\ input_data' = SetRow(input_data, inout_index, in_working)
            /\ output_data' = SetRow(output_data, inout_index, out_working)
            /\ inout_index' = inout_index + 1
            /\ emitted' = Append(emitted, i)
            /\ i' = i + 1
            /\ pc' = "loop"
            /\ UNCHANGED exception
       ELSE /\ pc' = "raised"
            /\ exception' = IF inwork_index = INPUT_LENGTH /\ outwork_index = OUTPUT_LENGTH
                             THEN "IndexError"
                             ELSE "AssertionError"
            /\ UNCHANGED <<input_data, output_data, inout_index, i, emitted>>
    /\ UNCHANGED <<HISTORICAL_HOURS, FUTURE_HOURS, data, maxdataindex, inwork_index,
                   outwork_index, skip_count, in_working, out_working, w_index,
                   examined, retval, stdout>>
    /\ UNCHANGED outside

\* Line 127: the line that reports the skipped windows.
SkipReport(n) == <<"Finished one dataset, skipped", n>>

\* The two matrices given back in the other order.
ReturnValue_Swapped(a, b) == <<b, a>>

\* Line 129: the tuple returned.
ReturnValue(a, b) == <<a, b>>

\* Lines 122-129: the loop is over, the unused rows are deleted and the two
\* matrices are returned.
Return ==
    /\ pc = "loop"
    /\ i = maxdataindex
    /\ input_data' = DeleteFrom(input_data, inout_index)
    /\ output_data' = DeleteFrom(output_data, inout_index)
    /\ stdout' = Append(stdout, SkipReport(skip_count))
    /\ retval' = ReturnValue(input_data', output_data')
    /\ pc' = "done"
    /\ UNCHANGED <<HISTORICAL_HOURS, FUTURE_HOURS, data, exception, maxdataindex, i,
                   inout_index, inwork_index, outwork_index, skip_count, in_working,
                   out_working, w_index, examined, emitted>>
    /\ UNCHANGED outside

Next ==
    \/ Begin
    \/ BeginRaises
    \/ SkipStartEnd
    \/ SkipStartNow
    \/ LoadNow
    \/ Collect
    \/ CollectRaises
    \/ Store
    \/ Return

Spec == Init /\ [][Next]_vars

-----------------------------------------------------------------------------
\* Two calls of process_dataset whose steps interleave.  The locals of a
\* call are the frame of the call: a step of one call reads and writes the
\* variables of its own frame; what the calls have in common is the module
\* configuration and the standard output.

\* A frame saved without the rows stored so far.
Frame_WithoutRows ==
    [data |-> data, pc |-> pc, exception |-> exception,
     maxdataindex |-> maxdataindex, i |-> i, inout_index |-> inout_index,
     inwork_index |-> inwork_index, outwork_index |-> outwork_index,
     skip_count |-> skip_count, in_working |-> in_working,
     out_working |-> out_working, input_data |-> Zeros2(maxdataindex, Len(in_working)),
     output_data |-> output_data, w_index |-> w_index, examined |-> examined,
     emitted |-> emitted, retval |-> retval]

\* The frame of the call that is running.
Frame ==
    [data |-> data, pc |-> pc, exception |-> exception,
     maxdataindex |-> maxdataindex, i |-> i, inout_index |-> inout_index,
     inwork_index |-> inwork_index, outwork_index |-> outwork_index,
     skip_count |-> skip_count, in_working |-> in_working,
     out_working |-> out_working, input_data |-> input_data,
     output_data |-> output_data, w_index |-> w_index, examined |-> examined,
     emitted |-> emitted, retval |-> retval]

\* The frame of a call that is about to execute line 47 with d as its data.
FreshFrame(d) ==
    [data |-> d, pc |-> "start", exception |-> "none", maxdataindex |-> 0,
     i |-> 0, inout_index |-> 0, inwork_index |-> 0, outwork_index |-> 0,
     skip_count |-> 0, in_working |-> <<>>, out_working |-> <<>>,
     input_data |-> Zeros2(0, 0), output_data |-> Zeros2(0, 0), w_index |-> 0,
     examined |-> <<>>, emitted |-> <<>>, retval |-> <<>>]

\* The working buffer of the call that was running taken over by the call
\* that resumes.
Resumed_SharedBuffer == [two.suspended EXCEPT !.in_working = in_working]

\* The frame the call that is not running resumes with.
Resumed == two.suspended

\* Distances of a query result whose first three rows are two or three
\* hours from first to last, in any division, the rest one hour apart.
TwoCallDistances(n) ==
    {[k \in 1..(n - 1) |-> IF k = 1 THEN ab[1] ELSE IF k = 2 THEN ab[2] ELSE TicksPerHour] :
        ab \in {ab \in (0..(2 * TicksPerHour)) \X (0..(2 * TicksPerHour)) :
                   ab[1] + ab[2] \in {2 * TicksPerHour, 3 * TicksPerHour}}}

\* The query results given to the first of two calls: one too short for a
\* window and those with two candidate windows.
TwoCallInputs ==
    {OrderedQuery(n, g, 3) :
        n \in {HISTORICAL_HOURS + FUTURE_HOURS, HISTORICAL_HOURS + FUTURE_HOURS + 3},
        g \in TwoCallDistances(HISTORICAL_HOURS + FUTURE_HOURS + 3)}

\* The rows of another region at the timestamps of d.
OtherRegion(d) ==
    [k \in 1..Len(d) |->
        [d[k] EXCEPT !.latitude = 34, !.longitude = 0 - 118, !.power_mw = @ + 1000]]

InitTwo ==
    /\ HISTORICAL_HOURS \in 1..MaxHours
    /\ FUTURE_HOURS \in 1..MaxHours
    /\ data \in TwoCallInputs
    /\ \E d \in {data} \cup {OtherRegion(e) : e \in {data} \cup TwoCallInputs} :
           two = [active |-> 1, inputs |-> <<data, d>>, suspended |-> FreshFrame(d)]
    /\ pc = "start"
    /\ exception = "none"
    /\ maxdataindex = 0
    /\ i = 0
    /\ inout_index = 0
    /\ inwork_index = 0
    /\ outwork_index = 0
    /\ skip_count = 0
    /\ in_working = <<>>
    /\ out_working = <<>>
    /\ input_data = Zeros2(0, 0)
    /\ output_data = Zeros2(0, 0)
    /\ w_index = 0
    /\ examined = <<>>
    /\ emitted = <<>>
    /\ retval = <<>>
    /\ stdout = <<>>
    /\ database = <<>>
    /\ collect = NoCollection
    /\ files = NoFiles
    /\ training = NoTraining
    /\ batch = NoBatch
    /\ network = NoNetwork
    /\ parallel = NoRun
    /\ commands = <<>>

\* The running call is suspended where it is and the other call goes on
\* where it was.
Switch ==
    /\ two # <<>>
    /\ two' = [two EXCEPT !.active = 3 - @, !.suspended = Frame]
    /\ data' = Resumed.data
    /\ pc' = Resumed.pc
    /\ exception' = Resumed.exception
    /\ maxdataindex' = Resumed.maxdataindex
    /\ i' = Resumed.i
    /\ inout_index' = Resumed.inout_index
    /\ inwork_index' = Resumed.inwork_index
    /\ outwork_index' = Resumed.outwork_index
    /\ skip_count' = Resumed.skip_count
    /\ in_working' = Resumed.in_working
    /\ out_working' = Resumed.out_working
    /\ input_data' = Resumed.input_data
    /\ output_data' = Resumed.output_data
    /\ w_index' = Resumed.w_index
    /\ examined' = Resumed.examined
    /\ emitted' = Resumed.emitted
    /\ retval' = Resumed.retval
    /\ UNCHANGED <<network, batch, parallel, commands, HISTORICAL_HOURS, FUTURE_HOURS, stdout, database, collect, files,
                   training>>

NextTwo ==
    \/ Begin
    \/ BeginRaises
    \/ SkipStartEnd
    \/ SkipStartNow
    \/ LoadNow
    \/ Collect
    \/ CollectRaises
    \/ Store
    \/ Return
    \/ Switch

SpecTwo == InitTwo /\ [][NextTwo]_vars

-----------------------------------------------------------------------------
\* get_data: the windows of every region, training and test, saved as one
\* dataset.

\* 2016-11-30 00:00:00
TRAINING_DATA_SPLIT_DATE == timedelta(2)

\* The rows before the split date together with the one at it.
training_region_data_UpToSplitDate(region_id) ==
    SelectSeq(database[region_id], LAMBDA o : o.dtime <= TRAINING_DATA_SPLIT_DATE)

\* q.filter(CombinedData.dtime < TRAINING_DATA_SPLIT_DATE).all()
training_region_data(region_id) ==
    SelectSeq(database[region_id], LAMBDA o : o.dtime < TRAINING_DATA_SPLIT_DATE)

\* q.filter(CombinedData.dtime >= TRAINING_DATA_SPLIT_DATE).all()
test_region_data(region_id) ==
    SelectSeq(database[region_id], LAMBDA o : o.dtime >= TRAINING_DATA_SPLIT_DATE)

\* The rows of a region: nb rows, then na rows of which the first is at the
\* split date, at the distances g.
RegionRows(nb, na, g) ==
    [k \in 1..(nb + na) |->
        CombinedData(k, TRAINING_DATA_SPLIT_DATE - SumTo(g, nb) + SumTo(g, k - 1), 3)]

\* Regions with no row, one row or room for three windows before the split
\* date, and with no row or room for two windows from it on.
RegionTables ==
    {RegionRows(nb, na, g) :
        nb \in {0, 1, HISTORICAL_HOURS + FUTURE_HOURS + 3},
        na \in {0, HISTORICAL_HOURS + FUTURE_HOURS + 2},
        g \in TwoCallDistances(2 * (HISTORICAL_HOURS + FUTURE_HOURS) + 6)}

\* Regions whose rows are all one hour apart, with and without rows before
\* the split date.
HourlyTables ==
    {RegionRows(nb, HISTORICAL_HOURS + FUTURE_HOURS + 2,
                [k \in 1..(2 * (HISTORICAL_HOURS + FUTURE_HOURS) + 5) |-> TicksPerHour]) :
        nb \in {0, HISTORICAL_HOURS + FUTURE_HOURS + 3}}

\* combined_data with no region, with one, and with a second one of hourly
\* rows.
Databases ==
    {<<>>} \cup {<<t>> : t \in RegionTables}
           \cup {<<t, OtherRegion(u)>> : t \in RegionTables, u \in HourlyTables}

\* The rows of b put before those of a.
NpAppend_Before(a, b) ==
    [shape |-> <<a.shape[1] + b.shape[1], a.shape[2]>>, rows |-> b.rows \o a.rows]

\* np.append(a, b, axis=0)
NpAppend(a, b) ==
    [shape |-> <<a.shape[1] + b.shape[1], a.shape[2]>>, rows |-> a.rows \o b.rows]

\* process_dataset(d): the call begins.
Call(d) ==
    /\ data' = d
    /\ pc' = "start"
    /\ exception' = "none"
    /\ maxdataindex' = 0
    /\ i' = 0
    /\ inout_index' = 0
    /\ inwork_index' = 0
    /\ outwork_index' = 0
    /\ skip_count' = 0
    /\ in_working' = <<>>
    /\ out_working' = <<>>
    /\ input_data' = Zeros2(0, 0)
    /\ output_data' = Zeros2(0, 0)
    /\ w_index' = 0
    /\ examined' = <<>>
    /\ emitted' = <<>>
    /\ retval' = <<>>

\* The moments at which a dataset is saved: datetime.now() of get_file_name.
SaveTimes == [month : {11, 12}, day : {2, 30}, hour : {12}, minute : {0, 5}]

\* "%02d" % n
TwoDigits(n) == <<n \div 10, n % 10>>

\* datetime.now().strftime("%d%H%M"), a string of six digits
get_file_name(t) == TwoDigits(t.day) \o TwoDigits(t.hour) \o TwoDigits(t.minute)

\* a.flatten(): the elements of the rows one after the other
RECURSIVE Flatten(_)
Flatten(rows) == IF rows = <<>> THEN <<>> ELSE Head(rows) \o Flatten(Tail(rows))

\* An array as np.savez stores it: its shape and its elements in row order.
\* None is stored as an array of no dimension that holds the object.
Saved(a) ==
    IF a = None
    THEN [dtype |-> "object", shape |-> <<>>, flat |-> <<>>]
    ELSE [dtype |-> "float64", shape |-> a.shape, flat |-> Flatten(a.rows)]

\* str(n) for n >= 0, as its sequence of decimal digits
RECURSIVE StrOf(_)
StrOf(n) == IF n < 10 THEN <<n>> ELSE Append(StrOf(n \div 10), n % 10)

\* json.dump of a shape: a list of decimal numbers
JsonDump(shape) == [k \in 1..Len(shape) |-> StrOf(shape[k])]

\* The file `name` of one kind written with `content` at moment t.
WriteFile(fs, name, content, t) ==
    {f \in fs : f.name # name} \cup {[name |-> name, content |-> content, created |-> t]}

\* Line 134-143.
GetData ==
    /\ collect.pc = "idle"
    /\ training.pc = "idle"
    /\ two = <<>>
    /\ pc = "idle"
    /\ collect' = [collect EXCEPT !.pc = "region", !.region_id = 1]
    /\ stdout' = Append(stdout, <<"Getting data">>)
    /\ UNCHANGED <<network, batch, parallel, commands, HISTORICAL_HOURS, FUTURE_HOURS, two, database, files, training>>
    /\ UNCHANGED locals

\* Lines 145-168 for a region with no row on one side of the split date.
SkipRegion ==
    /\ collect.pc = "region"
    /\ collect.region_id <= Len(database)
    /\ \/ Len(training_region_data(collect.region_id)) = 0
       \/ Len(test_region_data(collect.region_id)) = 0
    /\ collect' = [collect EXCEPT !.region_id = @ + 1]
    /\ stdout' = Append(stdout, <<"Working on region", collect.region_id>>)
    /\ UNCHANGED <<network, batch, parallel, commands, HISTORICAL_HOURS, FUTURE_HOURS, two, database, files, training>>
    /\ UNCHANGED locals

\* Lines 145-171 for a region with rows on both sides, up to the call.
CreateTrainingSet ==
    /\ collect.pc = "region"
    /\ collect.region_id <= Len(database)
    /\ Len(training_region_data(collect.region_id)) # 0
    /\ Len(test_region_data(collect.region_id)) # 0
    /\ collect' = [collect EXCEPT !.pc = "training"]
    /\ stdout' = stdout \o <<<<"Working on region", collect.region_id>>,
                             <<"Creating training set of region", collect.region_id>>>>
    /\ Call(training_region_data(collect.region_id))
    /\ UNCHANGED <<network, batch, parallel, commands, HISTORICAL_HOURS, FUTURE_HOURS, two, database, files, training>>

\* Lines 171-174: the training set is returned and the test set called for.
CreateTestSet ==
    /\ collect.pc = "training"
    /\ pc = "done"
    /\ collect' = [collect EXCEPT !.pc = "test", !.tmp_training_set = retval]
    /\ stdout' = Append(stdout, <<"Creating test set of region", collect.region_id>>)
    /\ Call(test_region_data(collect.region_id))
    /\ UNCHANGED <<network, batch, parallel, commands, HISTORICAL_HOURS, FUTURE_HOURS, two, database, files, training>>

\* Lines 174-188: the test set is returned and both are added to the sets.
FinishRegion ==
    /\ collect.pc = "test"
    /\ pc = "done"
    /\ LET tmp_training_set == collect.tmp_training_set
           tmp_test_set == retval
       IN  collect' =
               IF collect.train_set_in = None
               THEN [collect EXCEPT !.pc = "region", !.region_id = @ + 1,
                                    !.train_set_in = tmp_training_set[1],
                                    !.train_set_out = tmp_training_set[2],
                                    !.test_set_in = tmp_test_set[1],
                                    !.test_set_out = tmp_test_set[2]]
               ELSE [collect EXCEPT !.pc = "region", !.region_id = @ + 1,
                                    !.train_set_in = NpAppend(@, tmp_training_set[1]),
                                    !.train_set_out = NpAppend(@, tmp_training_set[2]),
                                    !.test_set_in = NpAppend(@, tmp_test_set[1]),
                                    !.test_set_out = NpAppend(@, tmp_test_set[2])]
    /\ stdout' = Append(stdout, <<"Finished working on region", collect.region_id>>)
    /\ pc' = "idle"
    /\ UNCHANGED <<network, batch, parallel, commands, HISTORICAL_HOURS, FUTURE_HOURS, two, database, files, training>>
    /\ UNCHANGED <<data, exception, maxdataindex, i, inout_index, inwork_index,
                   outwork_index, skip_count, in_working, out_working, input_data,
                   output_data, w_index, examined, emitted, retval>>

\* Lines 171 and 174: what process_dataset raises ends get_data.
CollectionRaises ==
    /\ collect.pc \in {"training", "test"}
    /\ pc = "raised"
    /\ collect' = [collect EXCEPT !.pc = "raised", !.exception = exception]
    /\ pc' = "idle"
    /\ UNCHANGED <<network, batch, parallel, commands, HISTORICAL_HOURS, FUTURE_HOURS, two, database, files, training, stdout>>
    /\ UNCHANGED <<data, exception, maxdataindex, i, inout_index, inwork_index,
                   outwork_index, skip_count, in_working, out_working, input_data,
                   output_data, w_index, examined, emitted, retval>>

\* Lines 192-199: the archive is written under the name of the moment.
SaveArchive ==
    /\ collect.pc = "region"
    /\ collect.region_id > Len(database)
    /\ \E t \in SaveTimes :
           /\ collect' = [collect EXCEPT !.pc = "shape", !.fname = get_file_name(t)]
           /\ files' = [files EXCEPT !.npz =
                  WriteFile(@, get_file_name(t),
                            [train_set_in |-> Saved(collect.train_set_in),
                             train_set_out |-> Saved(collect.train_set_out),
                             test_set_in |-> Saved(collect.test_set_in),
                             test_set_out |-> Saved(collect.test_set_out)], t)]
    /\ UNCHANGED <<network, batch, parallel, commands, HISTORICAL_HOURS, FUTURE_HOURS, two, database, training, stdout>>
    /\ UNCHANGED locals

\* Lines 200-210: the shapes are written beside the archive.
SaveShapes ==
    /\ collect.pc = "shape"
    /\ collect.train_set_in # None
    /\ collect' = [collect EXCEPT !.pc = "done"]
    /\ \E f \in files.npz :
           /\ f.name = collect.fname
           /\ files' = [files EXCEPT !.shape =
                  WriteFile(@, collect.fname,
                            [train_set_in |-> JsonDump(collect.train_set_in.shape),
                             train_set_out |-> JsonDump(collect.train_set_out.shape),
                             test_set_in |-> JsonDump(collect.test_set_in.shape),
                             test_set_out |-> JsonDump(collect.test_set_out.shape)],
                            f.created)]
    /\ stdout' = Append(stdout, <<"Saved numpy arrays to", collect.fname>>)
    /\ UNCHANGED <<network, batch, parallel, commands, HISTORICAL_HOURS, FUTURE_HOURS, two, database, training>>
    /\ UNCHANGED locals

\* Line 202 when no region gave a set: None has no attribute `shape`.
SaveShapesRaises ==
    /\ collect.pc = "shape"
    /\ collect.train_set_in = None
    /\ collect' = [collect EXCEPT !.pc = "raised", !.exception = "AttributeError"]
    /\ UNCHANGED <<network, batch, parallel, commands, HISTORICAL_HOURS, FUTURE_HOURS, two, database, files, training, stdout>>
    /\ UNCHANGED locals

-----------------------------------------------------------------------------
\* run_training, up to the datasets it trains on.

\* int(s) of a string of decimal digits
RECURSIVE IntOf(_)
IntOf(s) == IF s = <<>> THEN 0 ELSE 10 * IntOf(SubSeq(s, 1, Len(s) - 1)) + s[Len(s)]

\* json.load of a shape
JsonLoad(list) == [k \in 1..Len(list) |-> IntOf(list[k])]

\* max(S) of a non-empty set of integers
Max(S) == CHOOSE m \in S : \A n \in S : n <= m

\* f"{dataset}": a string as it is, an integer in decimal
Format(dataset) == IF "int" \in DOMAIN dataset THEN StrOf(dataset.int) ELSE dataset.str

\* np.reshape(a, shape) of a loaded array whose size is that of the shape
Reshape(a, shape) ==
    [shape |-> shape,
     rows |-> [k \in 1..shape[1] |->
                  SubSeq(a.flat, (k - 1) * shape[2] + 1, k * shape[2])]]

\* np.reshape accepts the array and the shape.
Reshapes(a, shape) ==
    /\ a.dtype # "object"
    /\ Len(shape) = 2
    /\ shape[1] * shape[2] = Len(a.flat)

\* run_training(dataset=...): with the dataset named by --train-use-data, one
\* of those present, or with None.
RunTraining ==
    /\ training.pc = "idle"
    /\ collect.pc \in {"idle", "done", "raised"}
    /\ two = <<>>
    /\ \E dataset \in {None} \cup {[str |-> f.name] : f \in files.npz} :
           training' = [training EXCEPT !.dataset = dataset,
                                        !.pc = IF dataset = None THEN "glob" ELSE "open"]
    /\ UNCHANGED <<network, batch, parallel, commands, HISTORICAL_HOURS, FUTURE_HOURS, two, database, collect, files, stdout>>
    /\ UNCHANGED locals

\* Lines 280-283 with an archive present.
FindLatest ==
    /\ training.pc = "glob"
    /\ files.npz # {}
    /\ LET gl == {f.name : f \in files.npz}
           maxint == Max({IntOf(f) : f \in gl})
       IN  training' = [training EXCEPT !.dataset = [int |-> maxint], !.pc = "open"]
    /\ UNCHANGED <<network, batch, parallel, commands, HISTORICAL_HOURS, FUTURE_HOURS, two, database, collect, files, stdout>>
    /\ UNCHANGED locals

\* Lines 280-282 with no archive present: max() of an empty list.
FindLatestRaises ==
    /\ training.pc = "glob"
    /\ files.npz = {}
    /\ training' = [training EXCEPT !.pc = "raised", !.exception = "ValueError"]
    /\ UNCHANGED <<network, batch, parallel, commands, HISTORICAL_HOURS, FUTURE_HOURS, two, database, collect, files, stdout>>
    /\ UNCHANGED locals

\* Lines 285-286 when the shape record of that name is there.
OpenShapes ==
    /\ training.pc = "open"
    /\ \E f \in files.shape :
           /\ f.name = Format(training.dataset)
           /\ training' = [training EXCEPT !.pc = "load", !.shapes =
                  [train_set_in |-> JsonLoad(f.content.train_set_in),
                   train_set_out |-> JsonLoad(f.content.train_set_out),
                   test_set_in |-> JsonLoad(f.content.test_set_in),
                   test_set_out |-> JsonLoad(f.content.test_set_out)]]
    /\ UNCHANGED <<network, batch, parallel, commands, HISTORICAL_HOURS, FUTURE_HOURS, two, database, collect, files, stdout>>
    /\ UNCHANGED locals

\* Line 285 when there is no shape record of that name.
OpenShapesRaises ==
    /\ training.pc = "open"
    /\ \A f \in files.shape : f.name # Format(training.dataset)
    /\ training' = [training EXCEPT !.pc = "raised", !.exception = "FileNotFoundError"]
    /\ UNCHANGED <<network, batch, parallel, commands, HISTORICAL_HOURS, FUTURE_HOURS, two, database, collect, files, stdout>>
    /\ UNCHANGED locals

\* Lines 288-292: the archive of that name is loaded and every array of it
\* given the shape recorded for it.
LoadArchive ==
    /\ training.pc = "load"
    /\ IF \E f \in files.npz : f.name = Format(training.dataset)
       THEN LET f == CHOOSE f \in files.npz : f.name = Format(training.dataset)
                loadsets == f.content
                shapes == training.shapes
            IN  IF /\ Reshapes(loadsets.train_set_in, shapes.train_set_in)
                   /\ Reshapes(loadsets.train_set_out, shapes.train_set_out)
                   /\ Reshapes(loadsets.test_set_in, shapes.test_set_in)
                   /\ Reshapes(loadsets.test_set_out, shapes.test_set_out)
                THEN training' = [training EXCEPT !.pc = "loaded",
                         !.loadsets = loadsets,
                         !.datasets =
                             [train_set_in |-> Reshape(loadsets.train_set_in,
                                                       shapes.train_set_in),
                              train_set_out |-> Reshape(loadsets.train_set_out,
                                                        shapes.train_set_out),
                              test_set_in |-> Reshape(loadsets.test_set_in,
                                                      shapes.test_set_in),
                              test_set_out |-> Reshape(loadsets.test_set_out,
                                                       shapes.test_set_out)]]
                ELSE training' = [training EXCEPT !.pc = "raised",
                         !.loadsets = loadsets, !.exception = "ValueError"]
       ELSE training' = [training EXCEPT !.pc = "raised",
                                         !.exception = "FileNotFoundError"]
    /\ UNCHANGED <<network, batch, parallel, commands, HISTORICAL_HOURS, FUTURE_HOURS, two, database, collect, files, stdout>>
    /\ UNCHANGED locals

InitCollect ==
    /\ HISTORICAL_HOURS \in 1..MaxHours
    /\ FUTURE_HOURS \in 1..MaxHours
    /\ database \in Databases
    /\ collect = NoCollection
    /\ files = NoFiles
    /\ training = NoTraining
    /\ batch = NoBatch
    /\ network = NoNetwork
    /\ parallel = NoRun
    /\ commands = <<>>
    /\ two = <<>>
    /\ stdout = <<>>
    /\ data = <<>>
    /\ pc = "idle"
    /\ exception = "none"
    /\ maxdataindex = 0
    /\ i = 0
    /\ inout_index = 0
    /\ inwork_index = 0
    /\ outwork_index = 0
    /\ skip_count = 0
    /\ in_working = <<>>
    /\ out_working = <<>>
    /\ input_data = Zeros2(0, 0)
    /\ output_data = Zeros2(0, 0)
    /\ w_index = 0
    /\ examined = <<>>
    /\ emitted = <<>>
    /\ retval = <<>>

NextCollect ==
    \/ GetData
    \/ SkipRegion
    \/ CreateTrainingSet
    \/ CreateTestSet
    \/ FinishRegion
    \/ CollectionRaises
    \/ SaveArchive
    \/ SaveShapes
    \/ SaveShapesRaises
    \/ Begin
    \/ BeginRaises
    \/ SkipStartEnd
    \/ SkipStartNow
    \/ LoadNow
    \/ Collect
    \/ CollectRaises
    \/ Store
    \/ Return
    \/ RunTraining
    \/ FindLatest
    \/ FindLatestRaises
    \/ OpenShapes
    \/ OpenShapesRaises
    \/ LoadArchive

SpecCollect == InitCollect /\ [][NextCollect]_vars

-----------------------------------------------------------------------------
\* run_training on the datasets that earlier collections have saved.

\* At most this many datasets were saved before.
MaxDatasets == 2

\* Moment a is before moment b (of the same year).
Earlier(a, b) ==
    \/ a.month < b.month
    \/ a.month = b.month /\ a.day < b.day
    \/ a.month = b.month /\ a.day = b.day /\ a.hour < b.hour
    \/ a.month = b.month /\ a.day = b.day /\ a.hour = b.hour /\ a.minute < b.minute

\* SET_DIRECTORY after a collection has saved, at moment t, sets of one row
\* each: lines 190-208.
SavedDataset(fs, t) ==
    LET in == Zeros2(1, INPUT_LENGTH)
        out == Zeros2(1, OUTPUT_LENGTH)
    IN  [npz |-> WriteFile(fs.npz, get_file_name(t),
                           [train_set_in |-> Saved(in), train_set_out |-> Saved(out),
                            test_set_in |-> Saved(in), test_set_out |-> Saved(out)], t),
         shape |-> WriteFile(fs.shape, get_file_name(t),
                             [train_set_in |-> JsonDump(in.shape),
                              train_set_out |-> JsonDump(out.shape),
                              test_set_in |-> JsonDump(in.shape),
                              test_set_out |-> JsonDump(out.shape)], t)]

\* SET_DIRECTORY after collections at the moments ts, one after the other.
RECURSIVE SaveAll(_, _)
SaveAll(fs, ts) ==
    IF ts = <<>> THEN fs ELSE SaveAll(SavedDataset(fs, Head(ts)), Tail(ts))

\* The successions of moments of no more than MaxDatasets collections.
Chronologies ==
    {ts \in UNION {[1..n -> SaveTimes] : n \in 0..MaxDatasets} :
        \A k \in 1..(Len(ts) - 1) : Earlier(ts[k], ts[k + 1])}

InitTrain ==
    /\ HISTORICAL_HOURS \in 1..MaxHours
    /\ FUTURE_HOURS \in 1..MaxHours
    /\ \E ts \in Chronologies : files = SaveAll(NoFiles, ts)
    /\ database = <<>>
    /\ collect = NoCollection
    /\ training = NoTraining
    /\ batch = NoBatch
    /\ network = NoNetwork
    /\ parallel = NoRun
    /\ commands = <<>>
    /\ two = <<>>
    /\ stdout = <<>>
    /\ data = <<>>
    /\ pc = "idle"
    /\ exception = "none"
    /\ maxdataindex = 0
    /\ i = 0
    /\ inout_index = 0
    /\ inwork_index = 0
    /\ outwork_index = 0
    /\ skip_count = 0
    /\ in_working = <<>>
    /\ out_working = <<>>
    /\ input_data = Zeros2(0, 0)
    /\ output_data = Zeros2(0, 0)
    /\ w_index = 0
    /\ examined = <<>>
    /\ emitted = <<>>
    /\ retval = <<>>

NextTrain ==
    \/ RunTraining
    \/ FindLatest
    \/ FindLatestRaises
    \/ OpenShapes
    \/ OpenShapesRaises
    \/ LoadArchive

SpecTrain == InitTrain /\ [][NextTrain]_vars

-----------------------------------------------------------------------------
\* fit-parallel.py: the commands run as subprocesses, a chunk at a time.

MaxTasks == 3        \* most tasks given to run_asyncio_commands
MaxConcurrent == 3   \* max_concurrent_tasks ranges over 0..MaxConcurrent

\* min(a, b)
Min(a, b) == IF a <= b THEN a ELSE b

\* Slices of n + 1 elements.
make_chunks_OneMore(l, n) ==
    [c \in 1..((Len(l) + n) \div (n + 1)) |->
        SubSeq(l, (c - 1) * (n + 1) + 1, Min(c * (n + 1), Len(l)))]

\* list(make_chunks(l, n)) for n > 0: l[i:i + n] for i in range(0, len(l), n)
make_chunks(l, n) ==
    [c \in 1..((Len(l) + n - 1) \div n) |->
        SubSeq(l, (c - 1) * n + 1, Min(c * n, Len(l)))]

\* One result for the whole chunk.
gather_OneResult(tasks_in_chunk) == <<None>>

\* The results of asyncio.gather(*tasks_in_chunk): one per task, in the
\* order of the tasks.
gather(tasks_in_chunk) ==
    [k \in 1..Len(tasks_in_chunk) |-> commands[tasks_in_chunk[k]].result]

\* The wait over as soon as one task of the chunk is done.
run_until_complete_FirstDone(tasks_in_chunk) ==
    \/ tasks_in_chunk = <<>>
    \/ \E k \in 1..Len(tasks_in_chunk) : commands[tasks_in_chunk[k]].state = "done"

\* loop.run_until_complete(commands) returns: every task of the chunk is done.
run_until_complete(tasks_in_chunk) ==
    \A k \in 1..Len(tasks_in_chunk) : commands[tasks_in_chunk[k]].state = "done"

\* Bytes read from a pipe.
Bytes == [bytes |-> TRUE]

\* What communicate() returns when the output of the subprocess is piped.
communicate_Piped == <<Bytes, Bytes>>

\* (stdout, stderr) of process.communicate(): the subprocess was created
\* with stdout=f and stderr=f (line 48), not with pipes, so both are None.
communicate == <<None, None>>

\* main, lines 192-206: one coroutine per command, none of them started, and
\* the call of run_asyncio_commands.
InitFit ==
    /\ \E N \in 0..MaxTasks : \E n \in 0..MaxConcurrent :
           /\ parallel = [pc |-> "start", tasks |-> [t \in 1..N |-> t],
                          max_concurrent_tasks |-> n, chunks |-> <<>>,
                          num_chunks |-> 0, chunk |-> 0, all_results |-> <<>>,
                          loop |-> "open"]
           /\ commands = [t \in 1..N |->
                             [state |-> "created", awaited |-> 0, returncode |-> None,
                              result |-> None, f |-> "unopened", late_writes |-> 0]]
    /\ HISTORICAL_HOURS = MaxHours
    /\ FUTURE_HOURS = MaxHours
    /\ files = NoFiles
    /\ database = <<>>
    /\ collect = NoCollection
    /\ training = NoTraining
    /\ batch = NoBatch
    /\ network = NoNetwork
    /\ two = <<>>
    /\ stdout = <<>>
    /\ data = <<>>
    /\ pc = "idle"
    /\ exception = "none"
    /\ maxdataindex = 0
    /\ i = 0
    /\ inout_index = 0
    /\ inwork_index = 0
    /\ outwork_index = 0
    /\ skip_count = 0
    /\ in_working = <<>>
    /\ out_working = <<>>
    /\ input_data = Zeros2(0, 0)
    /\ output_data = Zeros2(0, 0)
    /\ w_index = 0
    /\ examined = <<>>
    /\ emitted = <<>>
    /\ retval = <<>>

\* What fit-parallel.py leaves alone.
elsewhere ==
    <<HISTORICAL_HOURS, FUTURE_HOURS, two, database, collect, files, training, batch,
      network>>

\* Lines 140-154: the chunks.
MakeChunks ==
    /\ parallel.pc = "start"
    /\ LET chunks == IF parallel.max_concurrent_tasks = 0
                     THEN <<parallel.tasks>>
                     ELSE make_chunks(parallel.tasks, parallel.max_concurrent_tasks)
       IN  parallel' = [parallel EXCEPT !.pc = "loop", !.chunks = chunks,
                                        !.num_chunks = Len(chunks), !.chunk = 1]
    /\ UNCHANGED <<commands, stdout>>
    /\ UNCHANGED elsewhere
    /\ UNCHANGED locals

\* Lines 155-158: the tasks of the next chunk are gathered and the loop runs.
BeginChunk ==
    /\ parallel.pc = "loop"
    /\ parallel.chunks # <<>>
    /\ LET tasks_in_chunk == Head(parallel.chunks)
       IN  commands' = [t \in DOMAIN commands |->
                           IF \E k \in 1..Len(tasks_in_chunk) : tasks_in_chunk[k] = t
                           THEN [commands[t] EXCEPT !.state = "scheduled"]
                           ELSE commands[t]]
    /\ parallel' = [parallel EXCEPT !.pc = "wait"]
    /\ stdout' = Append(stdout, <<"Beginning work on chunk", parallel.chunk,
                                  parallel.num_chunks>>)
    /\ UNCHANGED elsewhere
    /\ UNCHANGED locals

\* run_command, lines 40-61: the log is opened, the subprocess created with
\* the log as its output, the log closed (line 55), and the coroutine waits
\* for the subprocess.
StartCommand ==
    /\ \E t \in DOMAIN commands :
           /\ commands[t].state = "scheduled"
           /\ commands' = [commands EXCEPT ![t].state = "running", ![t].awaited = @ + 1,
                                           ![t].f = "closed"]
           /\ stdout' = Append(stdout, <<"Started", t>>)
    /\ UNCHANGED parallel
    /\ UNCHANGED elsewhere
    /\ UNCHANGED locals

\* The subprocess of a command exits, with status 0 or not.
ExitCommand ==
    /\ \E t \in DOMAIN commands : \E returncode \in {0, 1} :
           /\ commands[t].state = "running"
           /\ commands' = [commands EXCEPT ![t].state = "exited",
                                           ![t].returncode = returncode]
    /\ UNCHANGED <<parallel, stdout>>
    /\ UNCHANGED elsewhere
    /\ UNCHANGED locals

\* run_command, lines 61-80: communicate() returns; were there anything of
\* stderr it would be written to the log, which is closed (ValueError);
\* otherwise the outcome is printed and the coroutine ends, with no value.
FinishCommand ==
    /\ \E t \in DOMAIN commands :
           /\ commands[t].state = "exited"
           /\ LET stderr == communicate[2]
              IN  IF stderr # None
                  THEN /\ commands' = [commands EXCEPT ![t].state = "raised",
                                                       ![t].late_writes = @ + 1]
                       /\ UNCHANGED stdout
                  ELSE /\ commands' = [commands EXCEPT ![t].state = "done",
                                                       ![t].result = None]
                       /\ stdout' = Append(stdout, <<IF commands[t].returncode = 0
                                                     THEN "Done" ELSE "Failed", t>>)
    /\ UNCHANGED parallel
    /\ UNCHANGED elsewhere
    /\ UNCHANGED locals

\* Lines 159-162: the results of the chunk are there.
CompleteChunk ==
    /\ parallel.pc = "wait"
    /\ run_until_complete(Head(parallel.chunks))
    /\ parallel' = [parallel EXCEPT !.pc = "loop",
                                    !.all_results = @ \o gather(Head(parallel.chunks)),
                                    !.chunk = @ + 1,
                                    !.chunks = Tail(@)]
    /\ stdout' = Append(stdout, <<"Completed work on chunk", parallel.chunk,
                                  parallel.num_chunks>>)
    /\ UNCHANGED commands
    /\ UNCHANGED elsewhere
    /\ UNCHANGED locals

\* Lines 164-165: no chunk is left.
ReturnResults ==
    /\ parallel.pc = "loop"
    /\ parallel.chunks = <<>>
    /\ parallel' = [parallel EXCEPT !.pc = "returned", !.loop = "closed"]
    /\ UNCHANGED <<commands, stdout>>
    /\ UNCHANGED elsewhere
    /\ UNCHANGED locals

NextFit ==
    \/ MakeChunks
    \/ BeginChunk
    \/ StartCommand
    \/ ExitCommand
    \/ FinishCommand
    \/ CompleteChunk
    \/ ReturnResults

SpecFit == InitFit /\ [][NextFit]_vars

\* The event loop runs every coroutine that can go on, run_until_complete
\* returns once its future is done, and every subprocess started exits.
FairFit ==
    /\ WF_vars(MakeChunks)
    /\ WF_vars(BeginChunk)
    /\ WF_vars(StartCommand)
    /\ WF_vars(ExitCommand)
    /\ WF_vars(FinishCommand)
    /\ WF_vars(CompleteChunk)
    /\ WF_vars(ReturnResults)

SpecFitFair == InitFit /\ [][NextFit]_vars /\ FairFit

-----------------------------------------------------------------------------
\* The models of a run: nickname_save puts them into MODELS_DIRECTORY,
\* create_command_list (fit-parallel.py) and run_training (train.py) list
\* them.  A string is the sequence of its characters.

MaxModels == 2   \* nickname_save is called at most this many times

\* RUN_CONSTANTS["run1"]["MODELS_DIRECTORY"]
MODELS_DIRECTORY == <<"d", "a", "t", "a", "/", "r", "u", "n", "1", "_", "m", "o", "d", "e", "l", "s">>

\* RUN_CONSTANTS["run1"]["LOG_FIT_DIRECTORY"]
LOG_FIT_DIRECTORY == <<"l", "o", "g", "s", "/", "r", "u", "n", "1", "_", "f", "i", "t">>

\* CRYSTAL_MODEL_NAME
RUN_NAME == <<"r", "u", "n", "1">>

\* The nicknames update_model gives to models.
Nicknames == {<<"a", "d", "a">>, <<"b", "o", "b">>, <<"e", "v", "e">>}

\* sub in s
Contains(s, sub) ==
    \E k \in 1..(Len(s) - Len(sub) + 1) : SubSeq(s, k, k + Len(sub) - 1) = sub

\* s.split("/")[-1]
RECURSIVE LastComponent(_)
LastComponent(s) ==
    IF s = <<>> THEN <<>>
    ELSE IF s[Len(s)] = "/" THEN <<>>
    ELSE Append(LastComponent(SubSeq(s, 1, Len(s) - 1)), s[Len(s)])

\* The orders in which glob may give the entries of a directory.
Listings(entries) ==
    {l \in [1..Cardinality(entries) -> entries] : \A e \in entries : \E k \in DOMAIN l : l[k] = e}

\* glob(f"{MODELS_DIRECTORY}/*") when the entries come in the order l
Globs(l) == [k \in DOMAIN l |-> MODELS_DIRECTORY \o <<"/">> \o l[k]]

\* [g.split("/")[-1] for g in globs if word not in g]
RECURSIVE NamesWithout(_, _)
NamesWithout(globs, word) ==
    IF globs = <<>> THEN <<>>
    ELSE IF Contains(Head(globs), word)
         THEN NamesWithout(Tail(globs), word)
         ELSE <<LastComponent(Head(globs))>> \o NamesWithout(Tail(globs), word)

\* The options runtask declares (runcrystal.py:15-61).
DeclaredOptions ==
    {<<"-", "-", "l", "o", "a", "d">>,
     <<"-", "-", "p", "r", "o", "c", "e", "s", "s">>,
     <<"-", "-", "c", "o", "l", "l", "e", "c", "t">>,
     <<"-", "-", "t", "r", "a", "i", "n">>,
     <<"-", "-", "b", "u", "i", "l", "d">>,
     <<"-", "-", "f", "i", "t">>,
     <<"-", "-", "p", "r", "e", "d", "i", "c", "t">>,
     <<"-", "-", "a", "n", "a", "l", "y", "z", "e">>,
     <<"-", "-", "t", "r", "a", "i", "n", "-", "u", "s", "e", "-", "d", "a", "t", "a">>,
     <<"-", "-", "p", "l", "o", "t", "-", "r", "e", "s", "u", "l", "t", "s">>,
     <<"-", "-", "r", "u", "n", "n", "a", "m", "e">>}

\* The command of fit-parallel.py:175-183 for a model.
FitCommand(model) ==
    <<<<"p", "y", "t", "h", "o", "n">>, <<"r", "u", "n", "c", "r", "y", "s", "t", "a", "l", ".", "p", "y">>,
      <<"-", "-", "t", "r", "a", "i", "n">>, model,
      <<"-", "-", "f", "i", "t", "-", "o", "n", "l", "y">>,
      <<"-", "-", "r", "u", "n", "n", "a", "m", "e">>, RUN_NAME>>

\* What create_command_list prints.
RECURSIVE TaskLines(_)
TaskLines(modelnames) ==
    IF modelnames = <<>> THEN <<>>
    ELSE <<<<"Adding task", Head(modelnames)>>, <<"Added task", Head(modelnames)>>>>
             \o TaskLines(Tail(modelnames))

InitBatch ==
    /\ batch = NoBatch
    /\ network = NoNetwork
    /\ HISTORICAL_HOURS = MaxHours
    /\ FUTURE_HOURS = MaxHours
    /\ parallel = NoRun
    /\ commands = <<>>
    /\ files = NoFiles
    /\ database = <<>>
    /\ collect = NoCollection
    /\ training = NoTraining
    /\ two = <<>>
    /\ stdout = <<>>
    /\ data = <<>>
    /\ pc = "idle"
    /\ exception = "none"
    /\ maxdataindex = 0
    /\ i = 0
    /\ inout_index = 0
    /\ inwork_index = 0
    /\ outwork_index = 0
    /\ skip_count = 0
    /\ in_working = <<>>
    /\ out_working = <<>>
    /\ input_data = Zeros2(0, 0)
    /\ output_data = Zeros2(0, 0)
    /\ w_index = 0
    /\ examined = <<>>
    /\ emitted = <<>>
    /\ retval = <<>>

\* What the listing of models leaves alone.
beside ==
    <<HISTORICAL_HOURS, FUTURE_HOURS, two, database, collect, files, training,
      parallel, commands, network>>

\* train.py:50-68, nickname_save of a model: the model is saved in its
\* directory under MODELS_DIRECTORY and a line added to manifest.txt there.
NicknameSave ==
    /\ ~batch.listed
    /\ ~batch.loaded
    /\ batch.manifest < MaxModels
    /\ \E nickname \in Nicknames :
           batch' = [batch EXCEPT !.entries = @ \cup {nickname, <<"m", "a", "n", "i", "f", "e", "s", "t", ".", "t", "x", "t">>},
                                  !.saved = @ \cup {nickname},
                                  !.manifest = @ + 1]
    /\ UNCHANGED stdout
    /\ UNCHANGED beside
    /\ UNCHANGED locals

\* fit-parallel.py:168-189, create_command_list.
CreateCommandList ==
    /\ ~batch.listed
    /\ \E l \in Listings(batch.entries) :
           LET modelnames == NamesWithout(Globs(l), <<"m", "a", "n", "i", "f", "s", "e", "t", ".", "t", "x", "t">>)
           IN  /\ batch' = [batch EXCEPT !.listed = TRUE, !.cmd_list =
                   [k \in DOMAIN modelnames |->
                       [cmd |-> FitCommand(modelnames[k]),
                        fname |-> LOG_FIT_DIRECTORY \o <<"/">> \o modelnames[k] \o <<".", "t", "x", "t">>]]]
               /\ stdout' = stdout \o TaskLines(modelnames)
    /\ UNCHANGED beside
    /\ UNCHANGED locals

\* train.py:342-343, run_training with "batch" and without build: the
\* names of the models to load.
ListBatchModels ==
    /\ ~batch.loaded
    /\ \E l \in Listings(batch.entries) :
           batch' = [batch EXCEPT !.loaded = TRUE, !.modelnames =
                   NamesWithout(Globs(l), <<"m", "a", "n", "i", "f", "e", "s", "t", ".", "t", "x", "t">>)]
    /\ UNCHANGED stdout
    /\ UNCHANGED beside
    /\ UNCHANGED locals

NextBatch ==
    \/ NicknameSave
    \/ CreateCommandList
    \/ ListBatchModels

SpecBatch == InitBatch /\ [][NextBatch]_vars

-----------------------------------------------------------------------------
\* run_training creating a model and fitting it (train.py): create_model
\* and fit_model.

MaxLayers == 3   \* num_layers is 1..MaxLayers
MaxUnits == 4    \* the width of the input rows is 1..MaxUnits
MaxRows == 2     \* the training set has 1..MaxRows rows
MaxSteps == 3    \* steps_per_epoch is 0..MaxSteps
MaxEpochs == 2   \* epochs is 1..MaxEpochs

\* np.linspace(start, stop, num, dtype=int): num values evenly spaced
\* from start to stop, each rounded down.
linspace(start, stop, num) ==
    [k \in 1..num |->
        IF num = 1 THEN start ELSE start + ((k - 1) * (stop - start)) \div (num - 1)]

\* np.geomspace(start, stop, num, dtype=int): num values from start to
\* stop in geometric progression, each rounded down; the value at k is
\* the (num-1)-th root of start^(num-1-k) * stop^k.
geomspace(start, stop, num) ==
    [k \in 1..num |->
        IF num = 1 THEN start
        ELSE CHOOSE m \in 0..stop :
                 /\ m ^ (num - 1) <= (start ^ (num - k)) * (stop ^ (k - 1))
                 /\ (m + 1) ^ (num - 1) > (start ^ (num - k)) * (stop ^ (k - 1))]

\* np.flip
flip(a) == [k \in DOMAIN a |-> a[Len(a) + 1 - k]]

\* keras.layers.BatchNormalization(input_shape=(num_inputs,), ...)
BatchNormalization(num_inputs) ==
    [layer |-> "BatchNormalization", units |-> num_inputs, activation |-> "none",
     name |-> <<"batch_normalization">>]

\* keras.layers.Dense(units, activation, name)
Dense(units, activation, name) ==
    [layer |-> "Dense", units |-> units, activation |-> activation, name |-> name]

\* train.py:115-156, the layers create_model gives to keras.Sequential;
\* enumerate counts from 0, so the layer at k has the index k - 1.
create_model(num_inputs, num_outputs, num_layers, layer_space) ==
    LET lsizes == IF layer_space = "log"
                  THEN flip(geomspace(num_outputs, num_inputs, num_layers))
                  ELSE flip(linspace(num_outputs, num_inputs, num_layers))
    IN  <<BatchNormalization(num_inputs)>> \o
        [k \in DOMAIN lsizes |->
            IF k - 1 = num_layers
            THEN Dense(lsizes[k], "none", <<"output">>)
            ELSE Dense(lsizes[k], "relu", <<"dense_", k - 1>>)]

\* math.ceil(a / b)
ceil(a, b) == (a + b - 1) \div b

\* np.repeat(a, repeats), without an axis: the array is flattened and
\* each of its elements is repeated.
repeat(a, repeats) ==
    LET flat == Flatten(a.rows)
    IN  [flat |-> [k \in 1..(Len(flat) * repeats) |-> flat[((k - 1) \div repeats) + 1]]]

\* a.reshape((-1, width))
ReshapeTo(a, width) == Reshape(a, <<Len(a.flat) \div width, width>>)

\* train.py:220-233, the arrays fit_model gives to model.fit.
Extended(set, in_len, total_steps) ==
    IF total_steps > in_len
    THEN ReshapeTo(repeat(set, ceil(total_steps, in_len)), set.shape[2])
    ELSE set

\* The training sets run_training may have loaded: rows of one value,
\* rows that differ from each other, or cells that all differ.
TrainingArray(rows, width, fill, base) ==
    [shape |-> <<rows, width>>,
     rows |-> [r \in 1..rows |-> [c \in 1..width |->
                 CASE fill = "same" -> base
                   [] fill = "rows" -> base + r
                   [] OTHER -> base + (r * MaxUnits) + c]]]

InitBuild ==
    /\ \E rows \in 1..MaxRows, in_width \in 1..MaxUnits, fill \in {"same", "rows", "cells"} :
       \E out_width \in 1..in_width :
           network \in
               [pc : {"loaded"}, num_layers : 1..MaxLayers, layer_space : {"linear", "log"},
                steps_per_epoch : 0..MaxSteps, epochs : 1..MaxEpochs,
                train_set_in : {TrainingArray(rows, in_width, fill, 0)},
                train_set_out : {TrainingArray(rows, out_width, fill, 100)},
                layers : {<<>>},
                fit_in : {NoNetwork.fit_in}, fit_out : {NoNetwork.fit_out}, saves : {0}]
    /\ batch = NoBatch
    /\ HISTORICAL_HOURS = MaxHours
    /\ FUTURE_HOURS = MaxHours
    /\ parallel = NoRun
    /\ commands = <<>>
    /\ files = NoFiles
    /\ database = <<>>
    /\ collect = NoCollection
    /\ training = NoTraining
    /\ two = <<>>
    /\ stdout = <<>>
    /\ data = <<>>
    /\ pc = "idle"
    /\ exception = "none"
    /\ maxdataindex = 0
    /\ i = 0
    /\ inout_index = 0
    /\ inwork_index = 0
    /\ outwork_index = 0
    /\ skip_count = 0
    /\ in_working = <<>>
    /\ out_working = <<>>
    /\ input_data = Zeros2(0, 0)
    /\ output_data = Zeros2(0, 0)
    /\ w_index = 0
    /\ examined = <<>>
    /\ emitted = <<>>
    /\ retval = <<>>

\* What creating and fitting a model leaves alone.
apart ==
    <<HISTORICAL_HOURS, FUTURE_HOURS, two, database, collect, files, training,
      parallel, commands, batch>>

\* train.py:115-197, create_model as run_training calls it, with the
\* widths of the training sets as num_inputs and num_outputs.
CreateModel ==
    /\ network.pc = "loaded"
    /\ network' = [network EXCEPT
           !.pc = "created",
           !.layers = create_model(network.train_set_in.shape[2],
                                   network.train_set_out.shape[2],
                                   network.num_layers, network.layer_space),
           !.saves = @ + 1]
    /\ stdout' = stdout \o <<<<"Creating model">>, <<"Created model">>>>
    /\ UNCHANGED apart
    /\ UNCHANGED locals

\* train.py:212-266, fit_model.
FitModel ==
    /\ network.pc = "created"
    /\ LET total_steps == network.steps_per_epoch * network.epochs
           in_len == network.train_set_in.shape[1]
       IN  network' = [network EXCEPT
               !.pc = "fitted",
               !.fit_in = Extended(network.train_set_in, in_len, total_steps),
               !.fit_out = Extended(network.train_set_out, in_len, total_steps),
               !.saves = @ + 1]
    /\ stdout' = stdout \o <<<<"Started training">>, <<"Finished training">>>>
    /\ UNCHANGED apart
    /\ UNCHANGED locals

NextBuild ==
    \/ CreateModel
    \/ FitModel

SpecBuild == InitBuild /\ [][NextBuild]_vars

-----------------------------------------------------------------------------
\* Vocabulary of the properties.

\* The candidate window of HISTORICAL_HOURS + FUTURE_HOURS observations that
\* starts at index j (counted from 0) of data.
WindowAt(j) == SubSeq(data, j + 1, j + HISTORICAL_HOURS + FUTURE_HOURS)

\* The two timestamp checks: first + (H+F-1)h = last and first + (H-1)h = now.
PassesBothChecks(win) ==
    /\ win[1].dtime + (HISTORICAL_HOURS + FUTURE_HOURS - 1) * TicksPerHour
           = win[HISTORICAL_HOURS + FUTURE_HOURS].dtime
    /\ win[1].dtime + (HISTORICAL_HOURS - 1) * TicksPerHour
           = win[HISTORICAL_HOURS].dtime

\* The start indices the loop of process_dataset goes through.
Candidates == 0..(maxdataindex - 1)

\* The candidates whose window passes both checks.
ValidStarts == {j \in Candidates : PassesBothChecks(WindowAt(j))}

\* The k-th smallest element of a finite set of integers (k from 1).
Nth(S, k) == CHOOSE j \in S : Cardinality({m \in S : m < j}) = k - 1

\* A set of integers as the sequence of its elements in ascending order.
Ascending(S) == [k \in 1..Cardinality(S) |-> Nth(S, k)]

\* The call has ended, by returning or by raising.
Ended == pc \in {"done", "raised"}

\* Every pair of adjacent observations of s is exactly one hour apart.
Hourly(s) == \A k \in 1..(Len(s) - 1) : s[k + 1].dtime = s[k].dtime + TicksPerHour

\* s is strictly ascending by timestamp.
StrictlyAscending(s) == \A k \in 1..(Len(s) - 1) : s[k].dtime < s[k + 1].dtime

\* The feature vector the data model prescribes for a window: the five
\* fields of the anchor, then (weather_description_id, temperature, power_mw)
\* of each of the first H observations, then (weather_description_id,
\* temperature) of each of the last F.
FeatureOf(win) ==
    [x \in 1..(5 + 3 * HISTORICAL_HOURS + 2 * FUTURE_HOURS) |->
        LET anchor == win[HISTORICAL_HOURS]
            h == x - 6
            f == x - 6 - 3 * HISTORICAL_HOURS
        IN  IF x = 1 THEN anchor.year
            ELSE IF x = 2 THEN anchor.dayofweek
            ELSE IF x = 3 THEN anchor.hour
            ELSE IF x = 4 THEN anchor.latitude
            ELSE IF x = 5 THEN anchor.longitude
            ELSE IF h < 3 * HISTORICAL_HOURS
                 THEN LET o == win[(h \div 3) + 1]
                      IN  IF h % 3 = 0 THEN o.weather_description_id
                          ELSE IF h % 3 = 1 THEN o.temperature
                          ELSE o.power_mw
                 ELSE LET o == win[HISTORICAL_HOURS + (f \div 2) + 1]
                      IN  IF f % 2 = 0 THEN o.weather_description_id
                          ELSE o.temperature]

\* A window with the power_mw of every observation after the anchor blanked.
WithoutFuturePower(win) ==
    [k \in 1..Len(win) |->
        IF k > HISTORICAL_HOURS THEN [win[k] EXCEPT !.power_mw = 0] ELSE win[k]]

\* The target vector the data model prescribes for a window: the power_mw of
\* the F observations after the anchor.
TargetOf(win) ==
    [j \in 1..FUTURE_HOURS |-> win[HISTORICAL_HOURS + j].power_mw]

-----------------------------------------------------------------------------
\* C1: when process_dataset returns, the feature matrix and the target matrix
\* have the same number of rows, and that number is the number of candidate
\* windows (start indices the loop went through) that passed both timestamp
\* checks: one row pair per valid window, none for a skipped one.
C1_RowsAreValidWindows ==
    pc = "done" =>
        /\ input_data.shape[1] = output_data.shape[1]
        /\ input_data.shape[1] = Cardinality(ValidStarts)
        /\ Len(input_data.rows) = Cardinality(ValidStarts)
        /\ Len(output_data.rows) = Cardinality(ValidStarts)
        /\ skip_count = Cardinality(Candidates \ ValidStarts)

\* A return after at least one window was skipped and at least two were stored.
C1_Witness ==
    /\ pc = "done"
    /\ skip_count > 0
    /\ input_data.shape[1] >= 2

\* C2: whatever the input and however many windows were skipped (all of them
\* included), the feature matrix returned has exactly 5 + 3H + 2F columns and
\* the target matrix exactly F columns.
C2_ColumnWidths ==
    pc = "done" =>
        /\ input_data.shape[2] = 5 + 3 * HISTORICAL_HOURS + 2 * FUTURE_HOURS
        /\ output_data.shape[2] = FUTURE_HOURS
        /\ \A k \in 1..Len(input_data.rows) :
               Len(input_data.rows[k]) = 5 + 3 * HISTORICAL_HOURS + 2 * FUTURE_HOURS
        /\ \A k \in 1..Len(output_data.rows) :
               Len(output_data.rows[k]) = FUTURE_HOURS

\* A return with every candidate window skipped.
C2_Witness ==
    /\ pc = "done"
    /\ maxdataindex > 0
    /\ skip_count = maxdataindex
    /\ input_data.shape[1] = 0

\* C3: every feature row stored for a valid window w is laid out as
\* (year, dayofweek, hour, latitude, longitude) of now = w[H-1], then
\* (weather_description_id, temperature, power_mw) of w[0..H-1], then
\* (weather_description_id, temperature) of w[H..H+F-1]; the power_mw of an
\* observation after the anchor is in no slot of it.
C3_FeatureLayout ==
    /\ Len(emitted) = inout_index
    /\ \A k \in 1..Len(emitted) :
           /\ PassesBothChecks(WindowAt(emitted[k]))
           /\ input_data.rows[k] = FeatureOf(WindowAt(emitted[k]))
           /\ input_data.rows[k] = FeatureOf(WithoutFuturePower(WindowAt(emitted[k])))

\* A returned row whose window has, after its anchor, the observation whose
\* power reading is off the ramp: its feature row is the one of the input
\* without that reading.
C3_Witness ==
    /\ pc = "done"
    /\ \E k \in 1..Len(emitted) : \E j \in 1..FUTURE_HOURS :
           WindowAt(emitted[k])[HISTORICAL_HOURS + j].power_mw % 10 = 5

\* C4: the target row stored for a valid window w is the power_mw of the F
\* observations after the anchor, in chronological order:
\* target[j] = w[H+j].power_mw.
C4_TargetIsFuturePower ==
    \A k \in 1..Len(emitted) :
        /\ Len(output_data.rows[k]) = FUTURE_HOURS
        /\ \A j \in 0..(FUTURE_HOURS - 1) :
               output_data.rows[k][j + 1]
                   = WindowAt(emitted[k])[HISTORICAL_HOURS + j + 1].power_mw

\* A returned target row of two future observations.
C4_Witness ==
    /\ pc = "done"
    /\ FUTURE_HOURS = 2
    /\ Len(emitted) >= 1
    /\ output_data.rows[1][1] # output_data.rows[1][2]

\* The timestamps of s differ from one another by whole hours.
OnHourGrid(s) ==
    \A k \in 1..Len(s) : (s[k].dtime - s[1].dtime) % TicksPerHour = 0

\* Start index j has had its row pair stored.
IsEmitted(j) == \E m \in 1..Len(emitted) : emitted[m] = j

\* Every start index gone through so far is either skipped or stored exactly
\* according to whether its window is hourly throughout.
PassIffHourly ==
    /\ \A k \in 1..Len(examined) :
           /\ PassesBothChecks(WindowAt(examined[k])) <=> Hourly(WindowAt(examined[k]))
           /\ IsEmitted(examined[k]) <=> Hourly(WindowAt(examined[k]))
    /\ Len(emitted) + skip_count = Len(examined)

OneMissingHour(s) ==
    \E g \in 1..(Len(s) - 1) :
        /\ s[g + 1].dtime = s[g].dtime + 2 * TicksPerHour
        /\ \A k \in 1..(Len(s) - 1) :
               k # g => s[k + 1].dtime = s[k].dtime + TicksPerHour

\* The window starting at index j has an observation on each side of a
\* missing hour.
SpanContainsGap(j) ==
    \E g \in (j + 1)..(j + HISTORICAL_HOURS + FUTURE_HOURS - 1) :
        data[g + 1].dtime # data[g].dtime + TicksPerHour

\* C6: for an otherwise hourly sequence with one missing hour, the candidate
\* windows (start indices the loop goes through) that are skipped are exactly
\* those whose span contains the gap; every other candidate window gives the
\* feature row and the target row of that window alone, and the rows
\* returned are these windows in start-index order.
C6_OnlyGapWindowsSkipped ==
    (OneMissingHour(data) /\ pc = "done") =>
        LET unaffected == {j \in Candidates : ~SpanContainsGap(j)}
        IN  /\ emitted = Ascending(unaffected)
            /\ skip_count = Cardinality(Candidates \ unaffected)
            /\ input_data.rows = [k \in 1..Len(emitted) |-> FeatureOf(WindowAt(emitted[k]))]
            /\ output_data.rows = [k \in 1..Len(emitted) |-> TargetOf(WindowAt(emitted[k]))]

\* A return for a sequence with one missing hour, with a window stored before
\* the gap, a window skipped over it and a window stored after it.
C6_Witness ==
    /\ pc = "done"
    /\ OneMissingHour(data)
    /\ \E a, b, c \in Candidates :
           a < b /\ b < c /\ IsEmitted(a) /\ ~IsEmitted(b) /\ IsEmitted(c)

\* C7: given exactly H + F observations with no gaps, process_dataset gives
\* exactly one feature row and one target row, and the target row is the
\* power_mw of the last F observations in order.
C7_MinimumLengthGivesOneWindow ==
    (Len(data) = HISTORICAL_HOURS + FUTURE_HOURS /\ Hourly(data) /\ Ended) =>
        /\ pc = "done"
        /\ input_data.shape[1] = 1
        /\ output_data.shape[1] = 1
        /\ output_data.rows = <<TargetOf(data)>>

\* C8: given fewer than H + F observations (the empty sequence included),
\* process_dataset raises no exception and returns two matrices of no rows
\* and of 5 + 3H + 2F and F columns.
C8_ShortInputGivesEmptyMatrices ==
    (Len(data) < HISTORICAL_HOURS + FUTURE_HOURS /\ Ended) =>
        /\ pc = "done"
        /\ exception = "none"
        /\ input_data = Zeros2(0, 5 + 3 * HISTORICAL_HOURS + 2 * FUTURE_HOURS)
        /\ output_data = Zeros2(0, FUTURE_HOURS)

\* The powers stored in the history slots of a feature row.
HistoryPowers(row) == [k \in 1..HISTORICAL_HOURS |-> row[5 + 3 * k]]

\* C9: for a gap-free hourly sequence of N >= H + F observations a window is
\* emitted for every anchor with H - 1 observations before it and F after it;
\* with H = 2, F = 1 and four consecutive observations of power_mw
\* 10, 20, 30, 40 exactly two windows are emitted, with history powers
\* [10, 20] and target [30], then history powers [20, 30] and target [40].
C9_WindowForEveryAnchor ==
    /\ (Len(data) >= HISTORICAL_HOURS + FUTURE_HOURS /\ Hourly(data) /\ pc = "done") =>
           input_data.shape[1] = Len(data) - (HISTORICAL_HOURS + FUTURE_HOURS) + 1
    /\ (/\ HISTORICAL_HOURS = 2
        /\ FUTURE_HOURS = 1
        /\ Len(data) = 4
        /\ Hourly(data)
        /\ [k \in 1..4 |-> data[k].power_mw] = <<10, 20, 30, 40>>
        /\ Ended) =>
           /\ pc = "done"
           /\ Len(input_data.rows) = 2
           /\ [k \in 1..2 |-> HistoryPowers(input_data.rows[k])] = <<(<<10, 20>>), (<<20, 30>>)>>
           /\ output_data.rows = <<(<<30>>), (<<40>>)>>

\* C10: the start indices process_dataset examines are exactly those of
\* [0, max_start) with max_start = len(observations) - (H + F), each once, in
\* ascending order, and none outside that range.
C10_ExaminesZeroToMaxStart ==
    /\ \A k \in 1..Len(examined) :
           /\ examined[k] = k - 1
           /\ examined[k] < Len(data) - (HISTORICAL_HOURS + FUTURE_HOURS)
    /\ pc = "done" =>
           Len(examined) = Len(data) - (HISTORICAL_HOURS + FUTURE_HOURS)

\* C11 as stated: process_dataset returns, together with the two matrices,
\* the number of candidate windows it skipped.
C11_ReturnsSkipCount ==
    pc = "done" =>
        /\ Len(retval) = 3
        /\ retval[1] = input_data
        /\ retval[2] = output_data
        /\ retval[3] = Cardinality(Candidates \ ValidStarts)

\* C11 amended: process_dataset returns the two matrices and nothing else;
\* the number of candidate windows it skipped is the last line it prints.
C11_ReturnsMatricesPrintsSkipCount ==
    pc = "done" =>
        /\ retval = <<input_data, output_data>>
        /\ Len(stdout) > 0
        /\ stdout[Len(stdout)]
               = <<"Finished one dataset, skipped", Cardinality(Candidates \ ValidStarts)>>

\* A return after two windows were skipped and one was stored.
C11_Witness ==
    /\ pc = "done"
    /\ skip_count >= 2
    /\ Len(retval) = 2
    /\ retval[1].shape[1] >= 1

\* C13: for an input sorted ascending by timestamp and a candidate window
\* that passes both checks, exactly H observations of the window have
\* dtime <= now.dtime and are written as history (inwork_index ends at
\* 5 + 3H + 2F), exactly F are written as targets (outwork_index ends at F),
\* and no write goes past the end of a working buffer.
C13_BookkeepingHolds ==
    /\ exception \notin {"IndexError", "AssertionError"}
    /\ pc = "inner" => WritesFit
    /\ pc \in {"inner", "store"} =>
           Cardinality({k \in 1..Len(working_set) : working_set[k].dtime <= now.dtime})
               = HISTORICAL_HOURS
    /\ pc = "store" =>
           /\ inwork_index = 5 + 3 * HISTORICAL_HOURS + 2 * FUTURE_HOURS
           /\ outwork_index = FUTURE_HOURS

-----------------------------------------------------------------------------
\* What a call of process_dataset on `data` does when nothing runs beside it.

\* The observations of a window that are written as history.
HistoryCount(win) ==
    Cardinality({k \in 1..Len(win) : win[k].dtime <= win[HISTORICAL_HOURS].dtime})

\* The call raises: the data has no room for the matrices, or a window that
\* passes both checks does not divide into H observations up to the anchor
\* and F after it.
AloneRaises ==
    \/ Len(data) - 1 - FUTURE_HOURS - HISTORICAL_HOURS < 0
    \/ \E j \in 0..(Len(data) - 2 - FUTURE_HOURS - HISTORICAL_HOURS) :
           /\ PassesBothChecks(WindowAt(j))
           /\ HistoryCount(WindowAt(j)) # HISTORICAL_HOURS

\* The pair of matrices the call returns: the feature rows and the target
\* rows of the valid windows, in ascending order of their start.
AloneResult ==
    LET valid == {j \in 0..(Len(data) - 2 - FUTURE_HOURS - HISTORICAL_HOURS) :
                     PassesBothChecks(WindowAt(j))}
        rows == Cardinality(valid)
    IN  <<[shape |-> <<rows, 5 + 3 * HISTORICAL_HOURS + 2 * FUTURE_HOURS>>,
           rows |-> [k \in 1..rows |-> FeatureOf(WindowAt(Nth(valid, k)))]],
          [shape |-> <<rows, FUTURE_HOURS>>,
           rows |-> [k \in 1..rows |-> TargetOf(WindowAt(Nth(valid, k)))]]>>

\* Both of two calls have begun before either went on.
BothBegunFirst ==
    /\ two # <<>>
    /\ Len(stdout) >= 2
    /\ stdout[1][1] = "Data has"
    /\ stdout[2][1] = "Data has"

C14_InterleavedAsAlone ==
    /\ pc = "done" => ~AloneRaises /\ retval = AloneResult
    /\ pc = "raised" => AloneRaises
    /\ two # <<>> =>
           /\ data = two.inputs[two.active]
           /\ two.suspended.data = two.inputs[3 - two.active]

\* Two calls on the sequences of two regions, begun together, have both
\* returned rows, and not the same.
C14_Witness ==
    /\ BothBegunFirst
    /\ two.inputs[1] # two.inputs[2]
    /\ pc = "done"
    /\ two.suspended.pc = "done"
    /\ retval[1].shape[1] >= 1
    /\ two.suspended.retval[1].shape[1] >= 1
    /\ retval # two.suspended.retval

-----------------------------------------------------------------------------
\* The dataset get_data saves and run_training loads.

\* The four sets of a dataset.
SetNames == {"train_set_in", "train_set_out", "test_set_in", "test_set_out"}

\* get_data has ended, one way or the other, and its archive is there.
ArchiveWritten ==
    /\ collect.pc \in {"done", "raised"}
    /\ \E f \in files.npz : f.name = collect.fname

\* C15: whenever get_data has written the archive (zero-row matrices and the
\* case of every region skipped included), the .shape record of the same name
\* holds the shape of each of the four matrices of the archive, and
\* run_training given that dataset loads it and reconstructs, by reshape,
\* four matrices equal to the ones get_data had.
C15_RoundTrip ==
    ArchiveWritten =>
        /\ \E s \in files.shape : \E f \in files.npz :
               /\ s.name = collect.fname
               /\ f.name = collect.fname
               /\ \A key \in SetNames : JsonLoad(s.content[key]) = f.content[key].shape
        /\ training.dataset = [str |-> collect.fname] => training.pc # "raised"
        /\ (training.dataset = [str |-> collect.fname] /\ training.pc = "loaded") =>
               \A key \in SetNames : training.datasets[key] = collect[key]

\* The windows of H + F successive rows of region r.
WindowsOf(r) ==
    {SubSeq(database[r], j + 1, j + HISTORICAL_HOURS + FUTURE_HOURS) :
        j \in 0..(Len(database[r]) - HISTORICAL_HOURS - FUTURE_HOURS)}

\* A pair of rows is the feature row and the target row of a window, of some
\* region, whose observations are all before the split date (or all not).
FromOneSide(in_row, out_row, before) ==
    \E r \in 1..Len(database) : \E win \in WindowsOf(r) :
        /\ \A k \in 1..Len(win) : (win[k].dtime < timedelta(2)) = before
        /\ in_row = FeatureOf(win)
        /\ out_row = TargetOf(win)

\* C16: the rows of a region before 2016-11-30 00:00 are its training rows
\* and the rest its test rows, each row in exactly one of the two; every
\* row of the training sets is made of one window of observations all before
\* that date and every row of the test sets of one window of observations
\* none before it.
C16_SplitByCutoff ==
    /\ \A r \in 1..Len(database) :
           /\ training_region_data(r) \o test_region_data(r) = database[r]
           /\ \A k \in 1..Len(training_region_data(r)) :
                  training_region_data(r)[k].dtime < timedelta(2)
           /\ \A k \in 1..Len(test_region_data(r)) :
                  test_region_data(r)[k].dtime >= timedelta(2)
    /\ collect.train_set_in # None =>
           /\ \A k \in 1..Len(collect.train_set_in.rows) :
                  FromOneSide(collect.train_set_in.rows[k],
                              collect.train_set_out.rows[k], TRUE)
           /\ \A k \in 1..Len(collect.test_set_in.rows) :
                  FromOneSide(collect.test_set_in.rows[k],
                              collect.test_set_out.rows[k], FALSE)

\* get_data has saved the sets of two regions, with training rows and test
\* rows of both.
C16_Witness ==
    /\ collect.pc = "done"
    /\ Len(database) = 2
    /\ collect.train_set_in.shape[1] >= 3
    /\ collect.test_set_in.shape[1] >= 2

\* The archive present that was saved last.
Newest ==
    CHOOSE f \in files.npz : \A g \in files.npz : g = f \/ Earlier(g.created, f.created)

\* C18: run_training called without a dataset, with archives present in
\* SET_DIRECTORY, loads the archive and the shape record of the dataset that
\* was saved last among them, whatever the moments at which they were saved.
C18_LoadsMostRecent ==
    (/\ files.npz # {}
     /\ "int" \in DOMAIN training.dataset
     /\ training.pc \in {"loaded", "raised"})
        => /\ training.pc = "loaded"
           /\ Format(training.dataset) = Newest.name
           /\ training.loadsets = Newest.content

-----------------------------------------------------------------------------
\* The commands of fit-parallel.py.

\* The commands whose coroutine has started its subprocess and not yet seen
\* it through.
InFlight == {t \in DOMAIN commands : commands[t].state \in {"running", "exited"}}

\* The chunk, counted from 1, of the task submitted in position t.
ChunkOf(t) ==
    IF parallel.max_concurrent_tasks = 0
    THEN 1
    ELSE ((t - 1) \div parallel.max_concurrent_tasks) + 1

\* C17: with max_concurrent_tasks = n > 0, never more than n commands are
\* running at one time, however starts and exits interleave; with n = 0
\* there is one chunk, of all the tasks, and they are all set going together.
C17_AtMostNRunning ==
    /\ parallel.max_concurrent_tasks > 0 =>
           Cardinality(InFlight) <= parallel.max_concurrent_tasks
    /\ (parallel.max_concurrent_tasks = 0 /\ parallel.pc \in {"loop", "wait", "returned"}) =>
           parallel.num_chunks = 1
    /\ (parallel.max_concurrent_tasks = 0 /\ parallel.pc = "wait") =>
           \A t \in DOMAIN commands : commands[t].state # "created"

\* With three tasks and a limit of two, two subprocesses are running.
C17_Witness ==
    /\ Len(parallel.tasks) = 3
    /\ parallel.max_concurrent_tasks = 2
    /\ Cardinality({t \in DOMAIN commands : commands[t].state = "running"}) = 2

C20_ChunksAreBarriers ==
    \A t \in DOMAIN commands : \A u \in DOMAIN commands :
        (ChunkOf(u) < ChunkOf(t) /\ commands[t].state # "created")
            => commands[u].state = "done"

\* One command of the first chunk still runs after the other has finished,
\* and the command of the second chunk has not been set going.
C20_Witness ==
    /\ Len(parallel.tasks) = 3
    /\ parallel.max_concurrent_tasks = 2
    /\ commands[1].state = "running"
    /\ commands[2].state = "done"
    /\ commands[3].state = "created"

\* A command whose subprocess failed has been reported so, and only such a
\* command.
ReportedFailed(t) ==
    \E k \in 1..Len(stdout) : stdout[k] = <<"Failed", t>>

Range(q) == {q[k] : k \in DOMAIN q}

\* The options of a command line: its words that begin with two dashes.
OptionsOf(cmd) ==
    {cmd[k] : k \in {j \in DOMAIN cmd : Len(cmd[j]) > 2 /\ SubSeq(cmd[j], 1, 2) = <<"-", "-">>}}

\* C22: create_command_list gives one command per model saved in
\* MODELS_DIRECTORY and none for the manifest nickname_save writes there;
\* the models it names are those run_training lists for the same directory
\* on its batch path without build; and every option of every command is
\* one runtask declares.
C22_CommandsAreTheModels ==
    /\ batch.listed =>
           /\ Len(batch.cmd_list) = Cardinality(batch.saved)
           /\ {c.cmd[4] : c \in Range(batch.cmd_list)} = batch.saved
           /\ \A c \in Range(batch.cmd_list) : OptionsOf(c.cmd) \subseteq DeclaredOptions
    /\ (batch.listed /\ batch.loaded) =>
           {c.cmd[4] : c \in Range(batch.cmd_list)} = Range(batch.modelnames)

\* The Dense layers of the model created.
DenseLayers == Tail(network.layers)

\* C23: after the normalization layer create_model builds exactly
\* num_layers Dense layers, with sizes from num_inputs down to
\* num_outputs; the last has num_outputs units, is named "output" and has
\* no activation, every earlier one uses relu; with one layer, that layer
\* is the output layer.
C23_LastLayerIsOutput ==
    network.pc \in {"created", "fitted"} =>
        LET n == network.num_layers
        IN  /\ network.layers[1].layer = "BatchNormalization"
            /\ Len(DenseLayers) = n
            /\ \A k \in 1..n : DenseLayers[k].layer = "Dense"
            /\ n > 1 => DenseLayers[1].units = network.train_set_in.shape[2]
            /\ \A k \in 1..(n - 1) : DenseLayers[k].units >= DenseLayers[k + 1].units
            /\ DenseLayers[n].units = network.train_set_out.shape[2]
            /\ DenseLayers[n].name = <<"output">>
            /\ DenseLayers[n].activation = "none"
            /\ \A k \in 1..(n - 1) : DenseLayers[k].activation = "relu"

\* C24: when steps_per_epoch * epochs exceeds the number of training
\* rows, the arrays given to model.fit have at least that many rows, as
\* many input rows as target rows, the widths of the training sets, and
\* at every index an input row of the training set with the target row of
\* the same training row; otherwise they are the training sets unchanged.
C24_ExtensionKeepsPairs ==
    network.pc = "fitted" =>
        LET total_steps == network.steps_per_epoch * network.epochs
            xs == network.train_set_in
            ys == network.train_set_out
        IN  IF total_steps > xs.shape[1]
            THEN /\ network.fit_in.shape[1] >= total_steps
                 /\ network.fit_in.shape[1] = network.fit_out.shape[1]
                 /\ network.fit_in.shape[2] = xs.shape[2]
                 /\ network.fit_out.shape[2] = ys.shape[2]
                 /\ \A k \in 1..network.fit_in.shape[1] :
                        \E r \in 1..xs.shape[1] :
                            /\ network.fit_in.rows[k] = xs.rows[r]
                            /\ network.fit_out.rows[k] = ys.rows[r]
            ELSE /\ network.fit_in = xs
                 /\ network.fit_out = ys

\* The candidate start indices 0 .. n-1 in the order of the loop.
FirstCandidates(n) == [k \in 1..n |-> k - 1]

\* How often x occurs in the sequence q.
Occurrences(q, x) == Cardinality({k \in DOMAIN q : q[k] = x})

\* C25: at the start of iteration i of process_dataset's loop
\* inout_index + skip_count = i; at the loop's exit the rows returned plus
\* skip_count are the candidates examined; every candidate is stored as
\* one row or counted as one skip, never both and never twice; and the
\* loop ends only after each candidate 0 .. maxdataindex-1 was examined
\* once, never by an exception raised inside it.
C25_EveryCandidateCounted ==
    /\ pc = "loop" =>
           /\ inout_index + skip_count = i
           /\ examined = FirstCandidates(i)
           /\ Len(emitted) = inout_index
           /\ \A c \in 0..(i - 1) : Occurrences(emitted, c) \in {0, 1}
           /\ skip_count = Cardinality({c \in 0..(i - 1) : Occurrences(emitted, c) = 0})
    /\ pc = "done" =>
           /\ examined = FirstCandidates(maxdataindex)
           /\ retval[1].shape[1] + skip_count = Len(examined)
           /\ retval[2].shape[1] + skip_count = Len(examined)
           /\ Len(emitted) = retval[1].shape[1]
    /\ pc = "raised" => exception = "ValueError"

\* C26: a row of process_dataset comes from its own window only.  When a
\* row is about to be stored, every slot of in_working and out_working
\* holds a value of the window at i, whatever earlier windows left there;
\* a row pair once stored is changed by no later step; when the call
\* returns, the k-th row pair is the one of the k-th window that passed
\* both checks, in ascending start index, and no row follows the last of
\* them.
C26_RowsOfOwnWindowOnly ==
    /\ []((pc = "store" /\ inwork_index = INPUT_LENGTH /\ outwork_index = OUTPUT_LENGTH) =>
             /\ in_working = FeatureOf(WindowAt(i))
             /\ out_working = TargetOf(WindowAt(i)))
    /\ [][\A k \in 1..inout_index :
             /\ input_data'.rows[k] = input_data.rows[k]
             /\ output_data'.rows[k] = output_data.rows[k]]_vars
    /\ [](pc = "done" =>
             /\ emitted = Ascending(ValidStarts)
             /\ retval[1].shape[1] = Cardinality(ValidStarts)
             /\ retval[2].shape[1] = Cardinality(ValidStarts)
             /\ Len(retval[1].rows) = Cardinality(ValidStarts)
             /\ Len(retval[2].rows) = Cardinality(ValidStarts)
             /\ \A k \in 1..Cardinality(ValidStarts) :
                    /\ retval[1].rows[k] = FeatureOf(WindowAt(Nth(ValidStarts, k)))
                    /\ retval[2].rows[k] = TargetOf(WindowAt(Nth(ValidStarts, k))))

\* A return of three row pairs, all different, with a window skipped
\* between the first and the second and unused rows removed.
C26_Witness ==
    /\ pc = "done"
    /\ Len(emitted) = 3
    /\ emitted[2] > emitted[1] + 1
    /\ maxdataindex > Len(retval[1].rows)
    /\ retval[1].rows[1] # retval[1].rows[2]
    /\ retval[1].rows[2] # retval[1].rows[3]
    /\ retval[2].rows[1] # retval[2].rows[2]

\* The start indices of the windows of d that pass both checks, among those
\* the loop of process_dataset goes through.
ValidStartsOf(d) ==
    {j \in 0..(Len(d) - 2 - FUTURE_HOURS - HISTORICAL_HOURS) :
        PassesBothChecks(SubSeq(d, j + 1, j + HISTORICAL_HOURS + FUTURE_HOURS))}

\* The k-th window of d that passes both checks, in ascending start index.
ValidWindow(d, k) ==
    SubSeq(d, Nth(ValidStartsOf(d), k) + 1,
           Nth(ValidStartsOf(d), k) + HISTORICAL_HOURS + FUTURE_HOURS)

\* The feature rows and the target rows of the valid windows of d, in
\* ascending start index.
FeatureRowsOf(d) ==
    [k \in 1..Cardinality(ValidStartsOf(d)) |-> FeatureOf(ValidWindow(d, k))]

TargetRowsOf(d) ==
    [k \in 1..Cardinality(ValidStartsOf(d)) |-> TargetOf(ValidWindow(d, k))]

\* Region r has no row before the split date or none from it on.
HasEmptySide(r) ==
    Len(training_region_data(r)) = 0 \/ Len(test_region_data(r)) = 0

\* What the first n regions, in the order of the query, give to a set.
RECURSIVE RowsUpTo(_, _)
RowsUpTo(n, key) ==
    IF n = 0 THEN <<>>
    ELSE RowsUpTo(n - 1, key) \o
         (IF HasEmptySide(n) THEN <<>>
          ELSE IF key = "train_set_in" THEN FeatureRowsOf(training_region_data(n))
          ELSE IF key = "train_set_out" THEN TargetRowsOf(training_region_data(n))
          ELSE IF key = "test_set_in" THEN FeatureRowsOf(test_region_data(n))
          ELSE TargetRowsOf(test_region_data(n)))

\* C27: in get_data, after every region, each of the four sets is the
\* concatenation, in the order of the regions, of what process_dataset gave
\* for each region that has rows on both sides of the split date: the rows
\* of a region stand together, in ascending order of their anchor, each made
\* of observations of that region only; the input set and the output set
\* of a side have the same number of rows; a region with one side empty
\* gives no row to either side.
C27_ConcatenationInRegionOrder ==
    collect.pc # "idle" =>
        LET n == collect.region_id - 1
        IN  /\ \A r \in 1..n : ~HasEmptySide(r) =>
                   \A d \in {training_region_data(r), test_region_data(r)} :
                       \A a, b \in ValidStartsOf(d) :
                           a < b => d[a + HISTORICAL_HOURS].dtime < d[b + HISTORICAL_HOURS].dtime
            /\ IF \A r \in 1..n : HasEmptySide(r)
               THEN \A key \in SetNames : collect[key] = None
               ELSE /\ \A key \in SetNames :
                          /\ collect[key].rows = RowsUpTo(n, key)
                          /\ collect[key].shape[1] = Len(collect[key].rows)
                    /\ collect.train_set_in.shape[1] = collect.train_set_out.shape[1]
                    /\ collect.test_set_in.shape[1] = collect.test_set_out.shape[1]

\* get_data has gone through two regions with rows on both sides: the
\* training rows and the test rows begin with those of the first region and
\* end with those of the second.
C27_Witness ==
    /\ collect.pc = "done"
    /\ Len(database) = 2
    /\ ~HasEmptySide(1)
    /\ ~HasEmptySide(2)
    /\ collect.train_set_in.shape[1] >= 4
    /\ collect.train_set_in.rows[1][4] = 40
    /\ collect.train_set_in.rows[collect.train_set_in.shape[1]][4] = 34
    /\ collect.test_set_in.rows[1][4] = 40
    /\ collect.test_set_in.rows[collect.test_set_in.shape[1]][4] = 34

====
